---- MODULE Spec2Model ----
(***************************************************************************)
(* State-machine model of the minikeyvalue store engine: the versioned     *)
(* map, the expiration index, lazy loading, CompareAndSwap, the expiration *)
(* sweeper and the notification bus (internal/store).                      *)
(*                                                                         *)
(* Locking.  Every critical section of the store (the code between         *)
(* kv.Lock()/kv.RLock() and the matching unlock) is one atomic action: the *)
(* sections exclude each other and none of them blocks inside, as long as  *)
(* the notification channel has room (guard Len(ch) < ChanCap).  What      *)
(* happens between two critical sections of one call (Set and Get take the *)
(* lock several times) is interleaved freely with the other goroutines.    *)
(***************************************************************************)
EXTENDS Integers, Sequences, FiniteSets, TLC

VARIABLES
    data,           \* kv.data: key -> sequence of KeyValue (oldest first)
    expirations,    \* kv.expirations: key -> expiry instant
    loaded,         \* kv.loaded
    globalTTL,      \* kv.globalTTL
    encryptionKey,  \* kv.encryptionKey
    file,           \* the file at kv.filePath
    now,            \* the wall clock read by time.Now()
    ch,             \* notificationManager.ch (buffered channel)
    listeners,      \* notificationManager.listeners
    received,       \* per listener, the events its callback was invoked with
    pc,             \* per caller goroutine, its position in the running call
    op,             \* per caller goroutine, the running call and its arguments
    loc,            \* per caller goroutine, the locals now / exists of Set
    last,           \* the call that returned last: goroutine, arguments, result
    done,           \* the number of calls that have returned
    limit,          \* the number of calls the callers make in all
    ret,            \* per goroutine of the CompareAndSwap race, what its call returned
    produced,       \* history: every event sent, in write-lock order
    seq,            \* history: per key, the values of the sequential Sets since the key was fresh
    lease,          \* history: per key, the last Set with ttl > 0 and what happened since
    loads,          \* history: the number of times load() filled the map and set the flag
    stopOnce,       \* kv.stopOnce: "new", "running" (Do is inside f), "done"
    stopChan,       \* kv.stopChan: "open" or "closed"
    cleanupStopped, \* kv.cleanupStopped: "open" or "closed"
    journal,        \* history of Stop: closes of stopChan, snapshots, the last snapshot
    rotated,        \* history of RotateEncryptionKey: the state the last call started in
    nm              \* the dispatch loop of the notification manager: mu, position, event

vars == <<data, expirations, loaded, globalTTL, encryptionKey, file, now, ch,
          listeners, received, pc, op, loc, last, done, limit, ret, produced, seq, lease,
          loads, stopOnce, stopChan, cleanupStopped, journal, rotated, nm>>

storeVars == <<data, expirations, loaded>>
confVars == <<globalTTL, encryptionKey, file, limit>>
busVars == <<ch, listeners, received, produced>>
histVars == <<seq, lease>>
lifeVars == <<stopOnce, stopChan, cleanupStopped, journal, rotated>>

(***************************************************************************)
(* Bounds of the model and constants of the program.                       *)
(***************************************************************************)
Keys == {"k1"}
Values == {"a", "b"}
CasValues == {"a", "b", "c"}
Procs == {"p1", "p2", "p3"}
Callers == {"p1", "p2"}
ListenerIds == {"l1"}
DispatchIds == {"l1", "l2"}
TTLs == {0, 1}
Versions == {-1, 0, 1, 2}
EncKeys == {"A", "B"}
MapKeys == {"k1", "k2"}

MaxTime == 2
MaxOps == 2
MaxBusOps == 3
MaxStopOps == 3
MaxLifeOps == 4
MaxMapOps == 3
MaxOpenOps == 3
MaxRotateOps == 3
MaxDispatchOps == 2
MaxSetOps == 3
MaxFirstOps == 3
MaxReloadOps == 4
MaxStallOps == 12
ChanCap == 10

(***************************************************************************)
(* Data helpers.                                                           *)
(***************************************************************************)
KeyValue(v, t) == [Value |-> v, Timestamp |-> t]

EmptyMap == [k \in {} |-> <<>>]

Put(m, k, x) == [y \in DOMAIN m \cup {k} |-> IF y = k THEN x ELSE m[y]]

Del(m, k) == [y \in DOMAIN m \ {k} |-> m[y]]

Range(s) == {s[i] : i \in 1..Len(s)}

\* values[key] of a Go map of slices: the nil slice when the key is missing
Lookup(m, k) == IF k \in DOMAIN m THEN m[k] ELSE <<>>

ValuesOf(vs) == [i \in 1..Len(vs) |-> vs[i].Value]

Event(verb, k) == <<verb, k>>

NoOp == [name |-> "none", key |-> "", value |-> "", new |-> "", ttl |-> 0]
NoLoc == [now |-> 0, exists |-> FALSE, old |-> "", plain |-> <<>>]
NoLast == [name |-> "none", key |-> "", value |-> "", new |-> "", ttl |-> 0,
           idx |-> 0, val |-> "", vals |-> <<>>, ok |-> FALSE, err |-> "nil"]
NoRet == [returned |-> FALSE, ok |-> FALSE, err |-> "nil"]

\* the dispatch loop waits for an event, nm.mu is free
NoDispatch == [pc |-> "recv", mu |-> "free", event |-> <<>>, i |-> 0, got |-> <<>>]

Result(name, k, v, n, ttl, i, val, vals, ok, err) ==
    [name |-> name, key |-> k, value |-> v, new |-> n, ttl |-> ttl,
     idx |-> i, val |-> val, vals |-> vals, ok |-> ok, err |-> err]

(***************************************************************************)
(* Persistence codec: json.Marshal, CompressData, EncryptData and base64,  *)
(* each modelled as a tagged wrapper that only its own decoder opens.      *)
(***************************************************************************)
Fail(x) == [ok |-> FALSE, v |-> x]
Ok(x) == [ok |-> TRUE, v |-> x]

\* mutant of JSONMarshal: the older flat shape, one (the latest) value per key
JSONMarshalFlat(d) ==
    [fmt |-> "json", v |-> [k \in DOMAIN d |-> SubSeq(d[k], Len(d[k]), Len(d[k]))]]

JSONMarshal(d) == [fmt |-> "json", v |-> d]

\* the JSON document of the older flat shape: an object that maps each key
\* of d to one value record instead of an array of versions
JSONMarshalOld(d) == [fmt |-> "jsonflat", v |-> d]

CompressData(x) == [fmt |-> "zlib", v |-> x]

DecompressData(x) == IF x.fmt = "zlib" THEN Ok(x.v) ELSE Fail(x)

\* aes.NewCipher: a key of an AES length is accepted, the absent key is not
ValidKey(key) == key # ""

\* AES-GCM: the ciphertext opens only under the key that sealed it
EncryptData(x, key) == [fmt |-> "gcm", key |-> key, v |-> x]

\* mutant of DecryptData: the ciphertext opens under every key
DecryptDataAnyKey(x, key) == IF ValidKey(key) /\ x.fmt = "gcm" THEN Ok(x.v) ELSE Fail(x)

DecryptData(x, key) ==
    IF ValidKey(key) /\ x.fmt = "gcm" /\ x.key = key THEN Ok(x.v) ELSE Fail(x)

Base64Encode(x) == [fmt |-> "b64", v |-> x]

Base64Decode(x) == IF x.fmt = "b64" THEN Ok(x.v) ELSE Fail(x)

\* json.Unmarshal into the existing map kv.data (map[string][]KeyValue): the
\* entries of the map are kept, the keys of the document are set.  A value
\* that is not an array is a type error: Unmarshal goes on as best it can,
\* leaves the zero value (no versions) under that key and returns the error.
JSONUnmarshal(x, into) ==
    IF x.fmt = "json"
    THEN Ok([k \in DOMAIN into \cup DOMAIN x.v |->
                IF k \in DOMAIN x.v THEN x.v[k] ELSE into[k]])
    ELSE IF x.fmt = "jsonflat"
    THEN Fail([k \in DOMAIN into \cup DOMAIN x.v |->
                  IF k \in DOMAIN x.v THEN <<>> ELSE into[k]])
    ELSE Fail(into)

\* what save() writes for map d under key
SaveBlob(d, key) ==
    LET compressed == CompressData(JSONMarshal(d))
    IN  IF key # "" THEN Base64Encode(EncryptData(compressed, key))
        ELSE Base64Encode(compressed)

NoFile == [exists |-> FALSE, blob |-> Base64Encode(<<>>)]

FileOf(d, key) == [exists |-> TRUE, blob |-> SaveBlob(d, key)]

\* a file of the older flat shape, as saveOldFormat writes it
OldFormatFile(d, key) ==
    [exists |-> TRUE,
     blob |-> Base64Encode(EncryptData(CompressData(JSONMarshalOld(d)), key))]

\* os.WriteFile can fail before it opened the file, which is then left as it
\* was, or after it truncated the file, which is then partially written
DiskOutcomes == {"written", "unopened", "partial"}

Partial == [fmt |-> "partial", v |-> <<>>]

WriteFile(f, blob, outcome) ==
    IF outcome = "written" THEN [exists |-> TRUE, blob |-> blob]
    ELSE IF outcome = "partial" THEN [exists |-> TRUE, blob |-> Partial]
    ELSE f

\* save(): the file after the call and the error
save(outcome) ==
    [file |-> WriteFile(file, SaveBlob(data, encryptionKey), outcome),
     err |-> IF outcome = "written" THEN "nil" ELSE "error writing file"]

\* load() of an engine that holds key and the map into, on the file f: the
\* new (data, loaded) and the error
loadFrom(f, key, into, wasLoaded) ==
    IF ~f.exists
    THEN [data |-> into, loaded |-> TRUE, err |-> "nil"]
    ELSE
    LET decoded == Base64Decode(f.blob)
        decrypted == IF key # "" THEN DecryptData(decoded.v, key) ELSE decoded
        decompressed == DecompressData(decrypted.v)
        unmarshalled == JSONUnmarshal(decompressed.v, into)
    IN  IF ~decoded.ok
        THEN [data |-> into, loaded |-> wasLoaded, err |-> "error decoding base64"]
        ELSE IF ~decrypted.ok
        THEN [data |-> into, loaded |-> wasLoaded, err |-> "error decrypting data"]
        ELSE IF ~decompressed.ok
        THEN [data |-> into, loaded |-> wasLoaded, err |-> "error decompressing data"]
        ELSE IF ~unmarshalled.ok
        THEN [data |-> unmarshalled.v, loaded |-> wasLoaded, err |-> "error unmarshalling data"]
        ELSE [data |-> unmarshalled.v, loaded |-> TRUE, err |-> "nil"]

\* load(): the new (data, loaded) and the error
load == loadFrom(file, encryptionKey, data, loaded)

\* saveToBytes: the map serialized, compressed and, with a key, encrypted
saveToBytes ==
    LET compressed == CompressData(JSONMarshal(data))
    IN  IF encryptionKey # "" THEN EncryptData(compressed, encryptionKey) ELSE compressed

\* loadFromBytes under key: the new data and the error
loadFromBytes(x, key, into) ==
    LET decoded == Base64Decode(x)
        decrypted == DecryptData(decoded.v, key)
        decompressed == DecompressData(decrypted.v)
        unmarshalled == JSONUnmarshal(decompressed.v, into)
    IN  IF ~decoded.ok THEN [data |-> into, err |-> "error decoding base64"]
        ELSE IF ~decrypted.ok THEN [data |-> into, err |-> "error decrypting data"]
        ELSE IF ~decompressed.ok THEN [data |-> into, err |-> "error decompressing data"]
        ELSE IF ~unmarshalled.ok THEN [data |-> unmarshalled.v, err |-> "error unmarshalling data"]
        ELSE [data |-> unmarshalled.v, err |-> "nil"]

(***************************************************************************)
(* The bodies of the store's critical sections, as functions of the state. *)
(***************************************************************************)
\* mutant of SetExpiry: the global default is not applied
SetExpiryNoGlobal(exps, k, t, ttl) ==
    IF ttl > 0 THEN Put(exps, k, t + ttl) ELSE Del(exps, k)

\* Set, lines 99-105: the expiration index after a Set at instant t
SetExpiry(exps, k, t, ttl) ==
    IF ttl > 0 THEN Put(exps, k, t + ttl)
    ELSE IF globalTTL > 0 THEN Put(exps, k, t + globalTTL)
    ELSE Del(exps, k)

\* mutant of SetAppend: the new value replaces the versions instead of joining them
SetAppendOverwrite(d, k, exists, v, t) == Put(d, k, <<KeyValue(v, t)>>)

\* Set, lines 90-97: the versions of the key after the append
SetAppend(d, k, exists, v, t) ==
    LET base == IF exists THEN Lookup(d, k) ELSE <<>>
    IN  Put(d, k, Append(base, KeyValue(v, t)))

\* Set, lines 107-111: the event sent
SetEvent(exists, k) == IF exists THEN Event("updated", k) ELSE Event("added", k)

\* Notify: nm.ch <- event
Notify(q, e) == Append(q, e)

\* mutant of GetLocked: a key is expired from its expiry instant on
GetLockedInclusive(k) ==
    LET values == Lookup(data, k)
    IN  IF k \notin DOMAIN data \/ Len(values) = 0
        THEN [val |-> "", err |-> "key not found"]
        ELSE IF k \in DOMAIN expirations /\ now >= expirations[k]
        THEN [val |-> "", err |-> "key expired"]
        ELSE [val |-> values[Len(values)].Value, err |-> "nil"]

\* Get, lines 123-135: the result of the read-locked section
GetLocked(k) ==
    LET values == Lookup(data, k)
    IN  IF k \notin DOMAIN data \/ Len(values) = 0
        THEN [val |-> "", err |-> "key not found"]
        ELSE IF k \in DOMAIN expirations /\ now > expirations[k]
        THEN [val |-> "", err |-> "key expired"]
        ELSE [val |-> values[Len(values)].Value, err |-> "nil"]

\* GetAllVersions
GetAllVersionsLocked(k) ==
    IF k \in DOMAIN data
    THEN [vals |-> ValuesOf(data[k]), err |-> "nil"]
    ELSE [vals |-> <<>>, err |-> "key not found"]

\* mutant of GetVersionLocked: a key past its expiry has no readable version
GetVersionLockedLive(k, version) ==
    IF k \notin DOMAIN data \/ version >= Len(data[k])
    THEN [val |-> "", err |-> "version not found"]
    ELSE IF k \in DOMAIN expirations /\ now > expirations[k]
    THEN [val |-> "", err |-> "key expired"]
    ELSE IF version < 0
    THEN [val |-> "", err |-> "panic"]
    ELSE [val |-> data[k][version + 1].Value, err |-> "nil"]

\* GetVersion, lines 143-148; a negative version passes the test of line 144
\* and versions[version] panics (index out of range)
GetVersionLocked(k, version) ==
    IF k \notin DOMAIN data \/ version >= Len(data[k])
    THEN [val |-> "", err |-> "version not found"]
    ELSE IF version < 0
    THEN [val |-> "", err |-> "panic"]
    ELSE [val |-> data[k][version + 1].Value, err |-> "nil"]

\* GetHistory
GetHistoryLocked(k) ==
    IF k \in DOMAIN data
    THEN [vals |-> data[k], err |-> "nil"]
    ELSE [vals |-> <<>>, err |-> "key not found"]

\* mutant of KeysLocked: the keys whose expiry has passed are left out
KeysLockedLive == {k \in DOMAIN data : ~(k \in DOMAIN expirations /\ now > expirations[k])}

\* Keys() and Size()
KeysLocked == DOMAIN data

SizeLocked == Cardinality(DOMAIN data)

\* mutants of CASMatches: the comparison looks at the oldest version, at any
\* version, or is left out
CASMatchesFirst(values, oldValue) == values[1].Value = oldValue

CASMatchesAny(values, oldValue) == \E i \in 1..Len(values) : values[i].Value = oldValue

CASMatchesAlways(values, oldValue) == TRUE

\* CompareAndSwap, line 205: the comparison with the latest version
CASMatches(values, oldValue) == values[Len(values)].Value = oldValue

\* mutant of CASExpiry: the swap applies the global TTL as Set does
CASExpiryGlobal(exps, k, t, ttl) == SetExpiry(exps, k, t, ttl)

\* CompareAndSwap, lines 215-219: the expiration index after a swap at instant t
CASExpiry(exps, k, t, ttl) ==
    IF ttl > 0 THEN Put(exps, k, t + ttl) ELSE Del(exps, k)

\* RemoveVersion, line 190: append(versions[:version], versions[version+1:]...)
RemoveAt(versions, version) ==
    SubSeq(versions, 1, version) \o SubSeq(versions, version + 2, Len(versions))

\* mutant of Expired: every key that has an expiry is swept
ExpiredAll(exps, t) == DOMAIN exps

\* mutant of Expired: a key is swept from its expiry instant on
ExpiredInclusive(exps, t) == {k \in DOMAIN exps : t >= exps[k]}

\* cleanupExpiredItems, line 19: now.After(exp)
Expired(exps, t) == {k \in DOMAIN exps : t > exps[k]}

(***************************************************************************)
(* History variables (they record what happened; no action reads them).    *)
(***************************************************************************)
Fresh == [ok |-> TRUE, vals |-> <<>>]
Dirty == [ok |-> FALSE, vals |-> <<>>]
NoLease == [on |-> FALSE, exp |-> 0, swept |-> FALSE, rv |-> FALSE]

\* journal: closes and saves count the close(stopChan) and the save() of
\* Stop; stop, data and key describe the last snapshot Stop took ("saved" when
\* the file was written); reopened tells that the engine was constructed
\* after that snapshot, on its file and with its key
NoJournal == [closes |-> 0, saves |-> 0, stop |-> "none", data |-> EmptyMap, key |-> "",
              reopened |-> FALSE]

\* the latest value of every key of d that has a version
Latest(d) == [k \in {x \in DOMAIN d : Len(d[x]) > 0} |-> d[k][Len(d[k])].Value]

\* what Get can return: the map as it is once the lazy load has run
Readable ==
    IF loaded THEN Latest(data)
    ELSE IF load.err = "nil" THEN Latest(load.data) ELSE Latest(EmptyMap)

\* what Get can return in a new engine constructed on file f with key
Stored(f, key) ==
    LET r == loadFrom(f, key, EmptyMap, FALSE)
    IN  IF r.err = "nil" THEN Latest(r.data) ELSE Latest(EmptyMap)

\* the engine holds a wrong key, or none, for its file: the lazy load has
\* not run and would fail on the sealing of the file
Mismatch ==
    /\ ~loaded
    /\ file.exists
    /\ load.err \in {"error decrypting data", "error decompressing data"}

\* rotated: the key, the map, the file and the readable values at the start
\* of the last RotateEncryptionKey call, and how the call ended
NoRotation == [state |-> "none", old |-> "", new |-> "", data |-> EmptyMap, file |-> NoFile,
               view |-> Latest(EmptyMap), mismatch |-> FALSE]

\* a Set on key k is running in a goroutine other than p
SetInFlight(k, p) ==
    \E q \in Procs \ {p} : pc[q] # "idle" /\ op[q].name = "Set" /\ op[q].key = k

\* seq after the keys ks left the map (Delete, sweeper)
SeqRemoved(ks) ==
    [k \in DOMAIN seq |-> IF k \in ks
                    THEN (IF SetInFlight(k, "") THEN Dirty ELSE Fresh)
                    ELSE seq[k]]

(***************************************************************************)
(* Initial state: the store as NewKeyValueStore returns it, on a path      *)
(* that holds no file, a file saved under the store's key, or a file saved *)
(* under another key.                                                      *)
(***************************************************************************)
OldData == [k \in {"k1"} |-> <<KeyValue("a", 0)>>]

InitFiles == {NoFile} \cup {FileOf(OldData, key) : key \in EncKeys}

InitCommon ==
    /\ expirations = EmptyMap
    /\ now = 0
    /\ ch = <<>>
    /\ listeners = <<>>
    /\ nm = NoDispatch
    /\ loc = [p \in Procs |-> NoLoc]
    /\ last = NoLast
    /\ done = 0
    /\ ret = [p \in Procs |-> NoRet]
    /\ produced = <<>>
    /\ loads = 0
    /\ stopOnce = "new"
    /\ stopChan = "open"
    /\ cleanupStopped = "open"
    /\ journal = NoJournal
    /\ rotated = NoRotation

Init ==
    /\ InitCommon
    /\ received = [l \in ListenerIds |-> <<>>]
    /\ lease = [k \in Keys |-> NoLease]
    /\ encryptionKey = "A"
    /\ data = EmptyMap
    /\ loaded = FALSE
    /\ globalTTL \in TTLs
    /\ file \in InitFiles
    /\ limit = MaxOps
    /\ pc = [p \in Procs |-> "idle"]
    /\ op = [p \in Procs |-> NoOp]
    /\ seq = [k \in Keys |-> IF file.exists /\ k \in DOMAIN OldData THEN Dirty ELSE Fresh]

(***************************************************************************)
(* Clock, notification bus.                                                *)
(***************************************************************************)
Tick ==
    /\ now < MaxTime
    /\ now' = now + 1
    /\ UNCHANGED <<storeVars, confVars, lifeVars, busVars, histVars, pc, op, loc, last, done, ret, nm, loads>>

\* mutant of MuFree: the registration does not take nm.mu
MuFreeAlways == TRUE

\* nm.mu.Lock() of RegisterListener and UnregisterListener returns
MuFree == nm.mu = "free"

\* RegisterListener (each listener of the model registers once)
RegisterListener(l) ==
    /\ MuFree
    /\ l \notin Range(listeners)
    /\ listeners' = Append(listeners, l)
    /\ UNCHANGED <<storeVars, confVars, lifeVars, histVars, now, ch, received, produced,
                   pc, op, loc, last, done, ret, nm, loads>>

\* mutant of Dequeue: the newest event of the channel is taken first
DequeueNewest(q) == [event |-> q[Len(q)], rest |-> SubSeq(q, 1, Len(q) - 1)]

\* listen(): one event taken from the channel and handed to every listener
Dequeue(q) == [event |-> Head(q), rest |-> Tail(q)]

Listen ==
    /\ ch # <<>>
    /\ LET d == Dequeue(ch)
       IN  /\ ch' = d.rest
           /\ received' = [l \in ListenerIds |->
                             IF l \in Range(listeners)
                             THEN Append(received[l], d.event) ELSE received[l]]
    /\ UNCHANGED <<storeVars, confVars, lifeVars, histVars, now, listeners, produced,
                   pc, op, loc, last, done, ret, nm, loads>>

(***************************************************************************)
(* Calls.  A goroutine of Callers starts a call when it is idle; the       *)
(* callers make at most limit calls.  The callers are interchangeable, so  *)
(* p2 starts a call only while p1 is inside one.                           *)
(***************************************************************************)
Running == {p \in Procs : pc[p] # "idle"}

CanCall(p) ==
    /\ p \in Callers
    /\ pc[p] = "idle"
    /\ (p = "p2" => pc["p1"] # "idle")
    /\ done + Cardinality(Running) < limit

Return(p, r) ==
    /\ last' = r
    /\ done' = done + 1
    /\ pc' = [pc EXCEPT ![p] = "idle"]
    /\ op' = [op EXCEPT ![p] = NoOp]
    /\ loc' = [loc EXCEPT ![p] = NoLoc]

\* ensureLoaded, lines 352-355, at the head of Set and Get: the flag is read
\* under the read lock; Set then reads time.Now()
Enter(p, o) ==
    /\ op' = [op EXCEPT ![p] = o]
    /\ IF loaded
       THEN /\ pc' = [pc EXCEPT ![p] = IF o.name = "Set" THEN "exists" ELSE "read"]
            /\ loc' = [loc EXCEPT ![p] = [NoLoc EXCEPT !.now = now]]
       ELSE /\ pc' = [pc EXCEPT ![p] = "load"]
            /\ UNCHANGED loc

SetCall(p, k, v, ttl) ==
    /\ CanCall(p)
    /\ Enter(p, [name |-> "Set", key |-> k, value |-> v, new |-> "", ttl |-> ttl])
    /\ seq' = IF SetInFlight(k, p) \/ ttl # 0 THEN [seq EXCEPT ![k] = Dirty] ELSE seq
    /\ UNCHANGED <<storeVars, confVars, lifeVars, busVars, now, last, done, ret, nm, lease, loads>>

GetCall(p, k) ==
    /\ CanCall(p)
    /\ Enter(p, [name |-> "Get", key |-> k, value |-> "", new |-> "", ttl |-> 0])
    /\ UNCHANGED <<storeVars, confVars, lifeVars, busVars, histVars, now, last, done, ret, nm, loads>>

\* mutant of NeedsLoad: the flag is not checked again under the write lock
NeedsLoadAlways == TRUE

\* ensureLoaded, line 360: the second check of the flag
NeedsLoad == ~loaded

\* ensureLoaded, lines 356-368: under the write lock, load unless loaded
EnsureLoaded(p) ==
    /\ pc[p] = "load"
    /\ LET r == IF NeedsLoad THEN load ELSE [data |-> data, loaded |-> loaded, err |-> "nil"]
           o == op[p]
       IN  /\ data' = r.data
           /\ loaded' = r.loaded
           /\ loads' = IF NeedsLoad /\ r.err = "nil" THEN loads + 1 ELSE loads
           /\ IF r.err = "nil"
              THEN /\ pc' = [pc EXCEPT ![p] = IF o.name = "Set" THEN "exists" ELSE "read"]
                   /\ loc' = [loc EXCEPT ![p] = [NoLoc EXCEPT !.now = now]]
                   /\ UNCHANGED <<op, last, done>>
              ELSE Return(p, Result(o.name, o.key, o.value, "", o.ttl, 0, "", <<>>, FALSE,
                                    IF o.name = "Set" THEN "failed to load data"
                                    ELSE "data not loaded"))
    /\ UNCHANGED <<expirations, confVars, lifeVars, busVars, histVars, now, ret, nm>>

\* Set, lines 83-85
SetExists(p) ==
    /\ pc[p] = "exists"
    /\ loc' = [loc EXCEPT ![p].exists = op[p].key \in DOMAIN data]
    /\ pc' = [pc EXCEPT ![p] = "write"]
    /\ UNCHANGED <<storeVars, confVars, lifeVars, busVars, histVars, now, op, last, done, ret, nm, loads>>

\* Set, lines 87-113
SetWrite(p) ==
    /\ pc[p] = "write"
    /\ Len(ch) < ChanCap
    /\ LET o == op[p]
           l == loc[p]
           e == SetEvent(l.exists, o.key)
       IN  /\ data' = SetAppend(data, o.key, l.exists, o.value, l.now)
           /\ expirations' = SetExpiry(expirations, o.key, l.now, o.ttl)
           /\ ch' = Notify(ch, e)
           /\ produced' = Append(produced, e)
           /\ seq' = IF seq[o.key].ok
                     THEN [seq EXCEPT ![o.key].vals = Append(@, o.value)] ELSE seq
           /\ lease' = [lease EXCEPT ![o.key] =
                           IF o.ttl > 0
                           THEN [on |-> TRUE, exp |-> l.now + o.ttl, swept |-> FALSE, rv |-> FALSE]
                           ELSE NoLease]
           /\ Return(p, Result("Set", o.key, o.value, "", o.ttl, 0, "", <<>>, TRUE, "nil"))
    /\ UNCHANGED <<loaded, confVars, lifeVars, now, listeners, received, ret, nm, loads>>

\* Get, lines 123-135
GetRead(p) ==
    /\ pc[p] = "read"
    /\ LET o == op[p]
           r == GetLocked(o.key)
       IN  Return(p, Result("Get", o.key, "", "", 0, 0, r.val, <<>>, r.err = "nil", r.err))
    /\ UNCHANGED <<storeVars, confVars, lifeVars, busVars, histVars, now, ret, nm, loads>>

\* GetAllVersions
GetAllVersions(p, k) ==
    /\ CanCall(p)
    /\ LET r == GetAllVersionsLocked(k)
       IN  Return(p, Result("GetAllVersions", k, "", "", 0, 0, "", r.vals, r.err = "nil", r.err))
    /\ UNCHANGED <<storeVars, confVars, lifeVars, busVars, histVars, now, ret, nm, loads>>

\* GetVersion: the whole call is one read-locked section.  A panic unwinds
\* the call (the deferred RUnlock runs); it is recorded as the call's outcome.
GetVersion(p, k, version) ==
    /\ CanCall(p)
    /\ LET r == GetVersionLocked(k, version)
       IN  Return(p, Result("GetVersion", k, "", "", 0, version, r.val, <<>>, r.err = "nil", r.err))
    /\ UNCHANGED <<storeVars, confVars, lifeVars, busVars, histVars, now, ret, nm, loads>>

\* CompareAndSwap: the whole call is one write-locked section
CASBody(p, k, oldValue, newValue, ttl) ==
    LET values == Lookup(data, k)
    IN  IF k \notin DOMAIN data \/ Len(values) = 0
        THEN /\ UNCHANGED <<data, expirations, histVars>>
             /\ Return(p, Result("CompareAndSwap", k, oldValue, newValue, ttl, 0, "", <<>>,
                                 FALSE, "key not found"))
        ELSE IF ~CASMatches(values, oldValue)
        THEN /\ UNCHANGED <<data, expirations, histVars>>
             /\ Return(p, Result("CompareAndSwap", k, oldValue, newValue, ttl, 0, "", <<>>,
                                 FALSE, "nil"))
        ELSE /\ data' = Put(data, k, Append(values, KeyValue(newValue, now)))
             /\ expirations' = CASExpiry(expirations, k, now, ttl)
             /\ seq' = [seq EXCEPT ![k] = Dirty]
             /\ lease' = [lease EXCEPT ![k] = NoLease]
             /\ Return(p, Result("CompareAndSwap", k, oldValue, newValue, ttl, 0, "", <<>>,
                                 TRUE, "nil"))

CompareAndSwap(p, k, oldValue, newValue, ttl) ==
    /\ CanCall(p)
    /\ CASBody(p, k, oldValue, newValue, ttl)
    /\ UNCHANGED <<loaded, confVars, lifeVars, busVars, now, ret, nm, loads>>

\* mutant of Delete: the expiration entry of the key is left behind
DeleteKeepsExpiry(p, k) ==
    /\ CanCall(p)
    /\ IF k \notin DOMAIN data
       THEN /\ UNCHANGED <<data, expirations, busVars, histVars>>
            /\ Return(p, Result("Delete", k, "", "", 0, 0, "", <<>>, FALSE, "key not found"))
       ELSE /\ Len(ch) < ChanCap
            /\ data' = Del(data, k)
            /\ ch' = Notify(ch, Event("deleted", k))
            /\ produced' = Append(produced, Event("deleted", k))
            /\ seq' = SeqRemoved({k})
            /\ lease' = [lease EXCEPT ![k] = NoLease]
            /\ UNCHANGED <<expirations, listeners, received>>
            /\ Return(p, Result("Delete", k, "", "", 0, 0, "", <<>>, TRUE, "nil"))
    /\ UNCHANGED <<loaded, confVars, lifeVars, now, ret, nm, loads>>

\* Delete
Delete(p, k) ==
    /\ CanCall(p)
    /\ IF k \notin DOMAIN data
       THEN /\ UNCHANGED <<data, expirations, busVars, histVars>>
            /\ Return(p, Result("Delete", k, "", "", 0, 0, "", <<>>, FALSE, "key not found"))
       ELSE /\ Len(ch) < ChanCap
            /\ data' = Del(data, k)
            /\ expirations' = Del(expirations, k)
            /\ ch' = Notify(ch, Event("deleted", k))
            /\ produced' = Append(produced, Event("deleted", k))
            /\ seq' = SeqRemoved({k})
            /\ lease' = [lease EXCEPT ![k] = NoLease]
            /\ UNCHANGED <<listeners, received>>
            /\ Return(p, Result("Delete", k, "", "", 0, 0, "", <<>>, TRUE, "nil"))
    /\ UNCHANGED <<loaded, confVars, lifeVars, now, ret, nm, loads>>

\* RemoveVersion: the whole call is one write-locked section.  A negative
\* version passes the test of line 186 and versions[:version] panics (slice
\* bounds out of range) before the map is written; the deferred Unlock runs
\* and the panic is recorded as the call's outcome.
RemoveVersion(p, k, version) ==
    /\ CanCall(p)
    /\ IF k \notin DOMAIN data
       THEN /\ UNCHANGED <<data, histVars>>
            /\ Return(p, Result("RemoveVersion", k, "", "", 0, version, "", <<>>, FALSE,
                                "key not found"))
       ELSE IF version >= Len(data[k])
       THEN /\ UNCHANGED <<data, histVars>>
            /\ Return(p, Result("RemoveVersion", k, "", "", 0, version, "", <<>>, FALSE,
                                "version not found"))
       ELSE IF version < 0
       THEN /\ UNCHANGED <<data, histVars>>
            /\ Return(p, Result("RemoveVersion", k, "", "", 0, version, "", <<>>, FALSE,
                                "panic"))
       ELSE /\ data' = Put(data, k, RemoveAt(data[k], version))
            /\ seq' = [seq EXCEPT ![k] = Dirty]
            /\ lease' = [lease EXCEPT ![k].rv = lease[k].on]
            /\ Return(p, Result("RemoveVersion", k, "", "", 0, version, "", <<>>, TRUE, "nil"))
    /\ UNCHANGED <<expirations, loaded, confVars, lifeVars, busVars, now, ret, nm, loads>>

(***************************************************************************)
(* cleanupExpiredItems: one tick of the sweeper, under the write lock.     *)
(* The range over the map visits the expired keys in an unspecified order. *)
(***************************************************************************)
Orders(S) == {s \in [1..Cardinality(S) -> S] : \A i, j \in DOMAIN s : i # j => s[i] # s[j]}

\* mutant of SweeperAlive: the sweeper keeps ticking after its acknowledgment
SweeperAliveAlways == TRUE

\* cleanupExpiredItems, lines 13-30: the loop runs until it has closed
\* cleanupStopped
SweeperAlive == cleanupStopped = "open"

Sweep ==
    /\ SweeperAlive
    /\ LET gone == Expired(expirations, now)
       IN  /\ Len(ch) + Cardinality(gone) <= ChanCap
           /\ data' = [k \in DOMAIN data \ gone |-> data[k]]
           /\ expirations' = [k \in DOMAIN expirations \ gone |-> expirations[k]]
           /\ \E order \in Orders(gone) :
                LET events == [i \in DOMAIN order |-> Event("expired", order[i])]
                IN  /\ ch' = ch \o events
                    /\ produced' = produced \o events
           /\ seq' = SeqRemoved(gone)
           /\ lease' = [k \in DOMAIN lease |->
                          IF lease[k].on /\ now > lease[k].exp
                          THEN [lease[k] EXCEPT !.swept = TRUE] ELSE lease[k]]
    /\ UNCHANGED <<loaded, confVars, lifeVars, now, listeners, received, pc, op, loc, last, done, ret, nm, loads>>

\* one of the racing CompareAndSwap calls of RaceSpec runs
CASRace(p) ==
    /\ pc[p] = "cas"
    /\ CASBody(p, op[p].key, op[p].value, op[p].new, op[p].ttl)
    /\ ret' = [ret EXCEPT ![p] = [returned |-> TRUE, ok |-> last'.ok, err |-> last'.err]]
    /\ UNCHANGED <<loaded, confVars, lifeVars, busVars, now, loads, nm>>

Next ==
    \/ Tick
    \/ Sweep
    \/ \E p \in Callers, k \in Keys, v \in Values, ttl \in TTLs : SetCall(p, k, v, ttl)
    \/ \E p \in Callers, k \in Keys : GetCall(p, k)
    \/ \E p \in Callers : EnsureLoaded(p)
    \/ \E p \in Callers : SetExists(p)
    \/ \E p \in Callers : SetWrite(p)
    \/ \E p \in Callers : GetRead(p)
    \/ \E p \in Callers, k \in Keys : GetAllVersions(p, k)
    \/ \E p \in Callers, k \in Keys, i \in Versions : GetVersion(p, k, i)
    \/ \E p \in Callers, k \in Keys, o \in Values, n \in Values, ttl \in TTLs :
          CompareAndSwap(p, k, o, n, ttl)
    \/ \E p \in Callers, k \in Keys : Delete(p, k)
    \/ \E p \in Callers, k \in Keys, i \in 0..1 : RemoveVersion(p, k, i)

Spec == Init /\ [][Next]_vars

(***************************************************************************)
(* The CompareAndSwap race of TestCompareAndSwapConcurrency: the key holds *)
(* one value, set without expiry, and every goroutine of Procs calls       *)
(* CompareAndSwap on it with that value as the expected one and a          *)
(* different new value.                                                    *)
(***************************************************************************)
RaceInit ==
    /\ InitCommon
    /\ received = [l \in ListenerIds |-> <<>>]
    /\ lease = [k \in Keys |-> NoLease]
    /\ encryptionKey = "A"
    /\ loaded = TRUE
    /\ globalTTL = 0
    /\ file = NoFile
    /\ limit = 0
    /\ pc = [p \in Procs |-> "cas"]
    /\ \E e \in CasValues :
          /\ data = [k \in {"k1"} |-> <<KeyValue(e, 0)>>]
          /\ seq = [k \in Keys |-> [ok |-> TRUE, vals |-> <<e>>]]
          /\ op \in [Procs -> {[name |-> "CompareAndSwap", key |-> "k1", value |-> e,
                                 new |-> n, ttl |-> t] : n \in CasValues \ {e}, t \in TTLs}]

RaceNext ==
    \/ Tick
    \/ Sweep
    \/ \E p \in Procs : CASRace(p)

RaceSpec == RaceInit /\ [][RaceNext]_vars

(***************************************************************************)
(* Stop and the construction of a new engine on the file.                  *)
(* stopOnce.Do runs its function in the first caller; the callers that     *)
(* arrive while it runs wait for it to finish; later callers return at     *)
(* once.  The function closes stopChan, waits for the sweeper to close     *)
(* cleanupStopped and saves; a failure of the save is logged only.         *)
(***************************************************************************)
\* mutant of OnceFirst: every call runs the function of Stop
OnceFirstAlways == TRUE

\* sync.Once: this call is the one that runs the function
OnceFirst == stopOnce = "new"

StopOp == [name |-> "Stop", key |-> "", value |-> "", new |-> "", ttl |-> 0]

StopResult == Result("Stop", "", "", "", 0, 0, "", <<>>, TRUE, "nil")

\* Stop, lines 64-66: Do, and in the first caller close(kv.stopChan)
StopCall(p) ==
    /\ CanCall(p)
    /\ IF OnceFirst
       THEN /\ stopOnce' = "running"
            /\ stopChan' = "closed"
            /\ journal' = [journal EXCEPT !.closes = @ + 1]
            /\ pc' = [pc EXCEPT ![p] = "stopwait"]
            /\ op' = [op EXCEPT ![p] = StopOp]
            /\ UNCHANGED <<loc, last, done>>
       ELSE IF stopOnce = "running"
       THEN /\ pc' = [pc EXCEPT ![p] = "stoponce"]
            /\ op' = [op EXCEPT ![p] = StopOp]
            /\ UNCHANGED <<stopOnce, stopChan, journal, loc, last, done>>
       ELSE /\ Return(p, StopResult)
            /\ UNCHANGED <<stopOnce, stopChan, journal>>
    /\ UNCHANGED <<storeVars, confVars, busVars, histVars, cleanupStopped, rotated, now, ret, nm,
                   loads>>

\* cleanupExpiredItems, lines 26-28: the sweeper sees stopChan closed
SweeperStop ==
    /\ stopChan = "closed"
    /\ cleanupStopped = "open"
    /\ cleanupStopped' = "closed"
    /\ UNCHANGED <<storeVars, confVars, busVars, histVars, stopOnce, stopChan, journal,
                   rotated, now, pc, op, loc, last, done, ret, nm, loads>>

\* Stop, lines 67-71: <-kv.cleanupStopped, then save
StopSave(p, outcome) ==
    /\ pc[p] = "stopwait"
    /\ cleanupStopped = "closed"
    /\ file' = save(outcome).file
    /\ journal' = [journal EXCEPT !.saves = @ + 1,
                                  !.stop = IF outcome = "written" THEN "saved" ELSE "failed",
                                  !.data = data,
                                  !.key = encryptionKey,
                                  !.reopened = FALSE]
    /\ stopOnce' = "done"
    /\ Return(p, StopResult)
    /\ UNCHANGED <<storeVars, globalTTL, encryptionKey, limit, busVars, histVars,
                   stopChan, cleanupStopped, rotated, now, ret, nm, loads>>

\* Stop: a caller that waited in Do returns when the function has finished
StopJoin(p) ==
    /\ pc[p] = "stoponce"
    /\ stopOnce = "done"
    /\ Return(p, StopResult)
    /\ UNCHANGED <<storeVars, confVars, lifeVars, busVars, histVars, now, ret, nm, loads>>

\* mutant of Reopen: the expiration index survives the construction
ReopenKeepsExpirations(p, key) ==
    /\ CanCall(p)
    /\ Running = {}
    /\ data' = EmptyMap
    /\ loaded' = FALSE
    /\ encryptionKey' = key
    /\ ch' = <<>>
    /\ listeners' = <<>>
    /\ received' = [l \in ListenerIds |-> <<>>]
    /\ produced' = <<>>
    /\ seq' = [k \in Keys |-> IF file.exists THEN Dirty ELSE Fresh]
    /\ lease' = [k \in Keys |-> NoLease]
    /\ loads' = 0
    /\ stopOnce' = "new"
    /\ stopChan' = "open"
    /\ cleanupStopped' = "open"
    /\ journal' = [journal EXCEPT !.closes = 0, !.saves = 0,
                                  !.reopened = (journal.stop = "saved" /\ journal.key = key)]
    /\ Return(p, Result("NewKeyValueStore", key, "", "", 0, 0, "", <<>>, TRUE, "nil"))
    /\ UNCHANGED <<expirations, globalTTL, file, limit, rotated, now, ret, nm>>

\* NewKeyValueStore on the same file with the given key, while no call runs:
\* an empty, unloaded engine with its own sweeper and notification manager
Reopen(p, key) ==
    /\ CanCall(p)
    /\ Running = {}
    /\ data' = EmptyMap
    /\ expirations' = EmptyMap
    /\ loaded' = FALSE
    /\ encryptionKey' = key
    /\ ch' = <<>>
    /\ listeners' = <<>>
    /\ received' = [l \in ListenerIds |-> <<>>]
    /\ produced' = <<>>
    /\ seq' = [k \in Keys |-> IF file.exists THEN Dirty ELSE Fresh]
    /\ lease' = [k \in Keys |-> NoLease]
    /\ loads' = 0
    /\ stopOnce' = "new"
    /\ stopChan' = "open"
    /\ cleanupStopped' = "open"
    /\ journal' = [journal EXCEPT !.closes = 0, !.saves = 0,
                                  !.reopened = (journal.stop = "saved" /\ journal.key = key)]
    /\ Return(p, Result("NewKeyValueStore", key, "", "", 0, 0, "", <<>>, TRUE, "nil"))
    /\ UNCHANGED <<globalTTL, file, limit, rotated, now, ret, nm>>

(***************************************************************************)
(* RotateEncryptionKey.  The call takes the store lock three times: in     *)
(* saveToBytes (read lock), in loadFromBytes (write lock, around the       *)
(* unmarshalling) and in save (read lock).  It reads and writes            *)
(* kv.encryptionKey outside the lock; the write of the new key is part of  *)
(* the second step here.  The call never reads the file and never calls    *)
(* ensureLoaded.                                                           *)
(***************************************************************************)
RotateResult(newKey, err) ==
    Result("RotateEncryptionKey", "", "", newKey, 0, 0, "", <<>>, err = "nil", err)

\* RotateEncryptionKey, lines 451-464: snapshot, old key, decryption check
RotateCall(p, newKey) ==
    /\ CanCall(p)
    /\ LET bytes == saveToBytes
           oldEncryptionKey == encryptionKey
           decryptedData == DecryptData(bytes, oldEncryptionKey)
       IN  /\ rotated' = [state |-> IF decryptedData.ok THEN "running" ELSE "failed",
                          old |-> encryptionKey, new |-> newKey, data |-> data,
                          file |-> file, view |-> Readable,
                          mismatch |-> Mismatch]
           /\ IF decryptedData.ok
              THEN /\ pc' = [pc EXCEPT ![p] = "rotload"]
                   /\ op' = [op EXCEPT ![p] = [name |-> "RotateEncryptionKey", key |-> "",
                                               value |-> "", new |-> newKey, ttl |-> 0]]
                   /\ loc' = [loc EXCEPT ![p] = [NoLoc EXCEPT !.old = oldEncryptionKey,
                                                              !.plain = decryptedData.v]]
                   /\ UNCHANGED <<last, done>>
              ELSE Return(p, RotateResult(newKey, "failed to decrypt data with old key"))
    /\ UNCHANGED <<storeVars, confVars, busVars, histVars, stopOnce, stopChan, cleanupStopped,
                   journal, now, ret, nm, loads>>

\* RotateEncryptionKey, lines 468-487: new key, encryption, loadFromBytes
RotateReload(p) ==
    /\ pc[p] = "rotload"
    /\ LET newKey == op[p].new
           encodedData == Base64Encode(EncryptData(loc[p].plain, newKey))
           r == loadFromBytes(encodedData, newKey, data)
       IN  IF ~ValidKey(newKey)
           THEN /\ encryptionKey' = loc[p].old
                /\ rotated' = [rotated EXCEPT !.state = "failed"]
                /\ UNCHANGED data
                /\ Return(p, RotateResult(newKey, "failed to encrypt data with new key"))
           ELSE IF r.err # "nil"
           THEN /\ encryptionKey' = loc[p].old
                /\ rotated' = [rotated EXCEPT !.state = "failed"]
                /\ UNCHANGED data
                /\ Return(p, RotateResult(newKey, "failed to load data with new encryption"))
           ELSE /\ encryptionKey' = newKey
                /\ data' = r.data
                /\ pc' = [pc EXCEPT ![p] = "rotsave"]
                /\ UNCHANGED <<rotated, op, loc, last, done>>
    /\ UNCHANGED <<expirations, loaded, globalTTL, file, limit, busVars, histVars, stopOnce,
                   stopChan, cleanupStopped, journal, now, ret, nm, loads>>

\* RotateEncryptionKey, lines 492-499: save under the new key
RotateSave(p, outcome) ==
    /\ pc[p] = "rotsave"
    /\ LET r == save(outcome)
       IN  /\ file' = r.file
           /\ journal' = IF outcome = "unopened" THEN journal
                         ELSE [journal EXCEPT !.stop = "none"]
           /\ IF r.err = "nil"
              THEN /\ rotated' = [rotated EXCEPT !.state = "ok"]
                   /\ UNCHANGED encryptionKey
                   /\ Return(p, RotateResult(op[p].new, "nil"))
              ELSE /\ encryptionKey' = loc[p].old
                   /\ rotated' = [rotated EXCEPT !.state = "failed"]
                   /\ Return(p, RotateResult(op[p].new,
                                             "failed to save data with new encryption key"))
    /\ UNCHANGED <<storeVars, globalTTL, limit, busVars, histVars, stopOnce, stopChan,
                   cleanupStopped, now, ret, nm, loads>>

(***************************************************************************)
(* The life of a file: one goroutine makes at most MaxLifeOps calls among  *)
(* Set, Get, RotateEncryptionKey, Stop and the construction of a new       *)
(* engine, starting with an engine that holds the sealing key of the file, *)
(* another key or none.  The clock stands still.                           *)
(***************************************************************************)
OpenKeys == {"", "A", "B"}

LifeInit ==
    /\ InitCommon
    /\ received = [l \in ListenerIds |-> <<>>]
    /\ lease = [k \in Keys |-> NoLease]
    /\ encryptionKey \in OpenKeys
    /\ data = EmptyMap
    /\ loaded = FALSE
    /\ globalTTL = 0
    /\ file \in {NoFile, FileOf(OldData, "A")}
    /\ limit = MaxLifeOps
    /\ pc = [p \in Procs |-> "idle"]
    /\ op = [p \in Procs |-> NoOp]
    /\ seq = [k \in Keys |-> IF file.exists THEN Dirty ELSE Fresh]

LifeNext ==
    \/ SweeperStop
    \/ \E k \in Keys : SetCall("p1", k, "b", 0)
    \/ \E k \in Keys : GetCall("p1", k)
    \/ EnsureLoaded("p1")
    \/ SetExists("p1")
    \/ SetWrite("p1")
    \/ GetRead("p1")
    \/ StopCall("p1")
    \/ \E outcome \in DiskOutcomes : StopSave("p1", outcome)
    \/ \E newKey \in OpenKeys : RotateCall("p1", newKey)
    \/ RotateReload("p1")
    \/ \E outcome \in DiskOutcomes : RotateSave("p1", outcome)
    \/ \E key \in OpenKeys : Reopen("p1", key)

LifeSpec == LifeInit /\ [][LifeNext]_vars

(***************************************************************************)
(* Shutdown: the callers make at most MaxStopOps calls among Set and Stop,  *)
(* on a store with or without an encryption key, while the sweeper runs.   *)
(***************************************************************************)
StopInit ==
    /\ InitCommon
    /\ received = [l \in ListenerIds |-> <<>>]
    /\ lease = [k \in Keys |-> NoLease]
    /\ encryptionKey \in {"A", ""}
    /\ data = EmptyMap
    /\ loaded = FALSE
    /\ globalTTL = 0
    /\ file = NoFile
    /\ limit = MaxStopOps
    /\ pc = [p \in Procs |-> "idle"]
    /\ op = [p \in Procs |-> NoOp]
    /\ seq = [k \in Keys |-> Fresh]

StopNext ==
    \/ Tick
    \/ Sweep
    \/ SweeperStop
    \/ \E p \in Callers, k \in Keys, v \in Values, ttl \in TTLs : SetCall(p, k, v, ttl)
    \/ \E p \in Callers : EnsureLoaded(p)
    \/ \E p \in Callers : SetExists(p)
    \/ \E p \in Callers : SetWrite(p)
    \/ \E p \in Callers : StopCall(p)
    \/ \E p \in Callers, outcome \in DiskOutcomes : StopSave(p, outcome)
    \/ \E p \in Callers : StopJoin(p)

StopSpec == StopInit /\ [][StopNext]_vars

(***************************************************************************)
(* The notification bus: listeners register, the callers make at most      *)
(* MaxBusOps Set and Delete calls on a store without a file, the sweeper   *)
(* expires keys, and the listen goroutine hands the events of the channel  *)
(* to the listeners.                                                       *)
(***************************************************************************)
BusInit ==
    /\ InitCommon
    /\ received = [l \in ListenerIds |-> <<>>]
    /\ lease = [k \in Keys |-> NoLease]
    /\ encryptionKey = "A"
    /\ data = EmptyMap
    /\ loaded = FALSE
    /\ globalTTL = 0
    /\ file = NoFile
    /\ limit = MaxBusOps
    /\ pc = [p \in Procs |-> "idle"]
    /\ op = [p \in Procs |-> NoOp]
    /\ seq = [k \in Keys |-> Fresh]

BusNext ==
    \/ Tick
    \/ Sweep
    \/ Listen
    \/ \E l \in ListenerIds : RegisterListener(l)
    \/ \E p \in Callers, k \in Keys, ttl \in TTLs : SetCall(p, k, "a", ttl)
    \/ \E p \in Callers : EnsureLoaded(p)
    \/ \E p \in Callers : SetExists(p)
    \/ \E p \in Callers : SetWrite(p)
    \/ \E p \in Callers, k \in Keys : Delete(p, k)

BusSpec == BusInit /\ [][BusNext]_vars

(***************************************************************************)
(* The map of a store with two keys: one goroutine makes at most MaxMapOps *)
(* calls among Set, Delete, RemoveVersion, Keys and Size while the clock   *)
(* runs and the sweeper ticks.  The store starts on a path without a file, *)
(* or with a file that holds two versions of k1.                           *)
(***************************************************************************)
\* Keys: the range over the map appends the keys in an unspecified order
KeysCall(p) ==
    /\ CanCall(p)
    /\ \E keys \in Orders(KeysLocked) :
          Return(p, Result("Keys", "", "", "", 0, 0, "", keys, TRUE, "nil"))
    /\ UNCHANGED <<storeVars, confVars, lifeVars, busVars, histVars, now, ret, nm, loads>>

\* Size
SizeCall(p) ==
    /\ CanCall(p)
    /\ Return(p, Result("Size", "", "", "", 0, SizeLocked, "", <<>>, TRUE, "nil"))
    /\ UNCHANGED <<storeVars, confVars, lifeVars, busVars, histVars, now, ret, nm, loads>>

MapData == [k \in {"k1"} |-> <<KeyValue("a", 0), KeyValue("b", 0)>>]

MapInit ==
    /\ InitCommon
    /\ received = [l \in ListenerIds |-> <<>>]
    /\ lease = [k \in MapKeys |-> NoLease]
    /\ encryptionKey = "A"
    /\ data = EmptyMap
    /\ loaded = FALSE
    /\ globalTTL = 0
    /\ file \in {NoFile, FileOf(MapData, "A")}
    /\ limit = MaxMapOps
    /\ pc = [p \in Procs |-> "idle"]
    /\ op = [p \in Procs |-> NoOp]
    /\ seq = [k \in MapKeys |-> Dirty]

MapNext ==
    \/ Tick
    \/ Sweep
    \/ \E k \in MapKeys, v \in Values, ttl \in TTLs : SetCall("p1", k, v, ttl)
    \/ EnsureLoaded("p1")
    \/ SetExists("p1")
    \/ SetWrite("p1")
    \/ \E k \in MapKeys : Delete("p1", k)
    \/ \E k \in MapKeys, i \in Versions : RemoveVersion("p1", k, i)
    \/ KeysCall("p1")
    \/ SizeCall("p1")

MapSpec == MapInit /\ [][MapNext]_vars

(***************************************************************************)
(* The first accesses to a persisted file: one goroutine makes at most     *)
(* MaxOpenOps calls among Get, Set, Keys, Size, CompareAndSwap and Delete  *)
(* on a store constructed with key A on a path that holds no file, a file  *)
(* sealed under A, a file sealed under B, or a file of the older flat      *)
(* shape sealed under A.                                                   *)
(***************************************************************************)
OldFlatData == [k \in {"k1"} |-> [Value |-> "a", Expiration |-> 0]]

OpenInit ==
    /\ InitCommon
    /\ received = [l \in ListenerIds |-> <<>>]
    /\ lease = [k \in Keys |-> NoLease]
    /\ encryptionKey = "A"
    /\ data = EmptyMap
    /\ loaded = FALSE
    /\ globalTTL = 0
    /\ (file \in InitFiles \/ file = OldFormatFile(OldFlatData, "A"))
    /\ limit = MaxOpenOps
    /\ pc = [p \in Procs |-> "idle"]
    /\ op = [p \in Procs |-> NoOp]
    /\ seq = [k \in Keys |-> Dirty]

OpenNext ==
    \/ \E k \in Keys : SetCall("p1", k, "b", 0)
    \/ \E k \in Keys : GetCall("p1", k)
    \/ EnsureLoaded("p1")
    \/ SetExists("p1")
    \/ SetWrite("p1")
    \/ GetRead("p1")
    \/ KeysCall("p1")
    \/ SizeCall("p1")
    \/ \E k \in Keys, o \in Values : CompareAndSwap("p1", k, o, "b", 0)
    \/ \E k \in Keys : Delete("p1", k)

OpenSpec == OpenInit /\ [][OpenNext]_vars

(***************************************************************************)
(* Rotation among mutations: the callers make at most MaxRotateOps calls   *)
(* among Set, CompareAndSwap, Delete, RemoveVersion and                    *)
(* RotateEncryptionKey, in any interleaving of their critical sections,    *)
(* while the clock runs and the sweeper ticks.                             *)
(***************************************************************************)
RotateInit ==
    /\ InitCommon
    /\ received = [l \in ListenerIds |-> <<>>]
    /\ lease = [k \in Keys |-> NoLease]
    /\ encryptionKey = "A"
    /\ data = EmptyMap
    /\ loaded = FALSE
    /\ globalTTL = 0
    /\ file \in {NoFile, FileOf(OldData, "A")}
    /\ limit = MaxRotateOps
    /\ pc = [p \in Procs |-> "idle"]
    /\ op = [p \in Procs |-> NoOp]
    /\ seq = [k \in Keys |-> Dirty]

RotateNext ==
    \/ Tick
    \/ Sweep
    \/ \E p \in Callers, k \in Keys, ttl \in TTLs : SetCall(p, k, "b", ttl)
    \/ \E p \in Callers : EnsureLoaded(p)
    \/ \E p \in Callers : SetExists(p)
    \/ \E p \in Callers : SetWrite(p)
    \/ \E p \in Callers, k \in Keys, ttl \in TTLs : CompareAndSwap(p, k, "b", "a", ttl)
    \/ \E p \in Callers, k \in Keys : Delete(p, k)
    \/ \E p \in Callers, k \in Keys : RemoveVersion(p, k, 0)
    \/ \E p \in Callers : RotateCall(p, "B")
    \/ \E p \in Callers : RotateReload(p)
    \/ \E p \in Callers, outcome \in DiskOutcomes : RotateSave(p, outcome)

RotateSpec == RotateInit /\ [][RotateNext]_vars

(***************************************************************************)
(* The dispatch loop step by step.  listen() takes an event from the       *)
(* channel, locks nm.mu, calls the listeners of the list one after the     *)
(* other and unlocks; RegisterListener and UnregisterListener lock nm.mu   *)
(* for their whole body.  One caller makes at most MaxDispatchOps Set and  *)
(* Delete calls while two listeners register and unregister.               *)
(***************************************************************************)
\* listen, line 74: event := <-nm.ch
DispatchRecv ==
    /\ nm.pc = "recv"
    /\ ch # <<>>
    /\ LET d == Dequeue(ch)
       IN  /\ ch' = d.rest
           /\ nm' = [nm EXCEPT !.pc = "lock", !.event = d.event, !.got = <<>>]
    /\ UNCHANGED <<storeVars, confVars, lifeVars, histVars, now, listeners, received, produced,
                   pc, op, loc, last, done, ret, loads>>

\* listen, line 75: nm.mu.Lock(), and the start of the range over the list
DispatchLock ==
    /\ nm.pc = "lock"
    /\ nm.mu = "free"
    /\ nm' = [nm EXCEPT !.pc = "iter", !.mu = "listen", !.i = 1]
    /\ UNCHANGED <<storeVars, confVars, lifeVars, busVars, histVars, now,
                   pc, op, loc, last, done, ret, loads>>

\* listen, lines 76-79: listener(event) for the next listener of the list
DispatchDeliver ==
    /\ nm.pc = "iter"
    /\ nm.i <= Len(listeners)
    /\ LET l == listeners[nm.i]
       IN  /\ received' = [received EXCEPT ![l] = Append(@, nm.event)]
           /\ nm' = [nm EXCEPT !.i = @ + 1, !.got = Append(@, l)]
    /\ UNCHANGED <<storeVars, confVars, lifeVars, histVars, now, ch, listeners, produced,
                   pc, op, loc, last, done, ret, loads>>

\* listen, line 80: the range is over, nm.mu.Unlock()
DispatchUnlock ==
    /\ nm.pc = "iter"
    /\ nm.i > Len(listeners)
    /\ nm' = [nm EXCEPT !.pc = "recv", !.mu = "free", !.i = 0]
    /\ UNCHANGED <<storeVars, confVars, lifeVars, busVars, histVars, now,
                   pc, op, loc, last, done, ret, loads>>

\* UnregisterListener: under nm.mu, the loop compares &l, the address of its
\* own variable, with &listener, the address of the parameter; the two are
\* never equal and no listener is removed
UnregisterListener(l) ==
    /\ MuFree
    /\ l \in Range(listeners)
    /\ last' = Result("UnregisterListener", l, "", "", 0, 0, "", <<>>, TRUE, "nil")
    /\ UNCHANGED <<storeVars, confVars, lifeVars, busVars, histVars, now,
                   pc, op, loc, done, ret, nm, loads>>

DispatchInit ==
    /\ InitCommon
    /\ received = [l \in DispatchIds |-> <<>>]
    /\ lease = [k \in Keys |-> NoLease]
    /\ encryptionKey = "A"
    /\ data = EmptyMap
    /\ loaded = FALSE
    /\ globalTTL = 0
    /\ file = NoFile
    /\ limit = MaxDispatchOps
    /\ pc = [p \in Procs |-> "idle"]
    /\ op = [p \in Procs |-> NoOp]
    /\ seq = [k \in Keys |-> Fresh]

DispatchNext ==
    \/ DispatchRecv
    \/ DispatchLock
    \/ DispatchDeliver
    \/ DispatchUnlock
    \/ \E l \in DispatchIds : RegisterListener(l)
    \/ \E l \in DispatchIds : UnregisterListener(l)
    \/ \E k \in Keys : SetCall("p1", k, "a", 0)
    \/ EnsureLoaded("p1")
    \/ SetExists("p1")
    \/ SetWrite("p1")
    \/ \E k \in Keys : Delete("p1", k)

DispatchSpec == DispatchInit /\ [][DispatchNext]_vars

(***************************************************************************)
(* Concurrent Sets on one key: the callers make at most MaxSetOps Set      *)
(* calls on k1 and nothing else, in any interleaving of the sections of    *)
(* Set, while the clock runs.  No Delete, RemoveVersion or sweeper runs.   *)
(***************************************************************************)
SetsInit ==
    /\ InitCommon
    /\ received = [l \in ListenerIds |-> <<>>]
    /\ lease = [k \in Keys |-> NoLease]
    /\ encryptionKey = "A"
    /\ data = EmptyMap
    /\ loaded = FALSE
    /\ globalTTL = 0
    /\ file \in {NoFile, FileOf(OldData, "A")}
    /\ limit = MaxSetOps
    /\ pc = [p \in Procs |-> "idle"]
    /\ op = [p \in Procs |-> NoOp]
    /\ seq = [k \in Keys |-> Dirty]

SetsNext ==
    \/ Tick
    \/ \E p \in Callers, v \in Values : SetCall(p, "k1", v, 0)
    \/ \E p \in Callers : EnsureLoaded(p)
    \/ \E p \in Callers : SetExists(p)
    \/ \E p \in Callers : SetWrite(p)

SetsSpec == SetsInit /\ [][SetsNext]_vars

(***************************************************************************)
(* First access: one goroutine makes at most MaxFirstOps calls, among all  *)
(* the operations of the engine, on a store freshly constructed with key A *)
(* on a path that holds no file or a file sealed under A.                  *)
(***************************************************************************)
\* GetHistory: the whole call is one read-locked section
GetHistory(p, k) ==
    /\ CanCall(p)
    /\ LET r == GetHistoryLocked(k)
       IN  Return(p, Result("GetHistory", k, "", "", 0, 0, "", r.vals, r.err = "nil", r.err))
    /\ UNCHANGED <<storeVars, confVars, lifeVars, busVars, histVars, now, ret, nm, loads>>

FirstInit ==
    /\ InitCommon
    /\ received = [l \in ListenerIds |-> <<>>]
    /\ lease = [k \in Keys |-> NoLease]
    /\ encryptionKey = "A"
    /\ data = EmptyMap
    /\ loaded = FALSE
    /\ globalTTL = 0
    /\ file \in {NoFile, FileOf(MapData, "A")}
    /\ limit = MaxFirstOps
    /\ pc = [p \in Procs |-> "idle"]
    /\ op = [p \in Procs |-> NoOp]
    /\ seq = [k \in Keys |-> Dirty]

FirstNext ==
    \/ \E k \in Keys : SetCall("p1", k, "b", 0)
    \/ \E k \in Keys : GetCall("p1", k)
    \/ EnsureLoaded("p1")
    \/ SetExists("p1")
    \/ SetWrite("p1")
    \/ GetRead("p1")
    \/ KeysCall("p1")
    \/ SizeCall("p1")
    \/ \E k \in Keys, o \in Values : CompareAndSwap("p1", k, o, "a", 0)
    \/ \E k \in Keys : Delete("p1", k)
    \/ \E k \in Keys, i \in 0..2 : GetVersion("p1", k, i)
    \/ \E k \in Keys : GetAllVersions("p1", k)
    \/ \E k \in Keys : GetHistory("p1", k)
    \/ \E k \in Keys, i \in 0..2 : RemoveVersion("p1", k, i)

FirstSpec == FirstInit /\ [][FirstNext]_vars

(***************************************************************************)
(* Expiry across a restart: one goroutine makes at most MaxReloadOps calls *)
(* among Set (with and without ttl), Get, CompareAndSwap, Stop and the     *)
(* construction of a new engine on the file, on a store with or without a  *)
(* global TTL, while the clock runs and the sweeper ticks.                 *)
(***************************************************************************)
ReloadInit ==
    /\ InitCommon
    /\ received = [l \in ListenerIds |-> <<>>]
    /\ lease = [k \in Keys |-> NoLease]
    /\ encryptionKey = "A"
    /\ data = EmptyMap
    /\ loaded = FALSE
    /\ globalTTL \in TTLs
    /\ file = NoFile
    /\ limit = MaxReloadOps
    /\ pc = [p \in Procs |-> "idle"]
    /\ op = [p \in Procs |-> NoOp]
    /\ seq = [k \in Keys |-> Dirty]

ReloadNext ==
    \/ Tick
    \/ Sweep
    \/ SweeperStop
    \/ \E k \in Keys, ttl \in TTLs : SetCall("p1", k, "a", ttl)
    \/ \E k \in Keys : GetCall("p1", k)
    \/ EnsureLoaded("p1")
    \/ SetExists("p1")
    \/ SetWrite("p1")
    \/ GetRead("p1")
    \/ \E k \in Keys, ttl \in TTLs : CompareAndSwap("p1", k, "a", "b", ttl)
    \/ StopCall("p1")
    \/ \E outcome \in DiskOutcomes : StopSave("p1", outcome)
    \/ Reopen("p1", "A")

ReloadSpec == ReloadInit /\ [][ReloadNext]_vars

(***************************************************************************)
(* Producers against a slow listener.  Notify sends on the channel of      *)
(* capacity ChanCap inside the write-locked section of Set and Delete;     *)
(* when the channel is full the send blocks and the goroutine stays in its *)
(* section, holding the store lock, until listen() takes an event.  The    *)
(* callback of a listener takes time: it is entered, may call Get on the   *)
(* store (which needs the read lock), and returns.  One goroutine makes at *)
(* most MaxStallOps Set and Delete calls on a store without TTLs, where    *)
(* the sweeper finds nothing to expire.                                    *)
(***************************************************************************)
\* kv.RLock() of another goroutine returns: no section is parked on a send
KvFree == \A p \in Procs : pc[p] # "send"

\* Set, lines 87-111, with the channel full: the map and the index are
\* written and NotifyAdd / NotifyUpdate blocks on nm.ch <- event
SetPark(p) ==
    /\ pc[p] = "write"
    /\ Len(ch) = ChanCap
    /\ LET o == op[p]
           l == loc[p]
       IN  /\ data' = SetAppend(data, o.key, l.exists, o.value, l.now)
           /\ expirations' = SetExpiry(expirations, o.key, l.now, o.ttl)
           /\ seq' = [seq EXCEPT ![o.key] = Dirty]
           /\ lease' = [lease EXCEPT ![o.key] = NoLease]
    /\ pc' = [pc EXCEPT ![p] = "send"]
    /\ UNCHANGED <<loaded, confVars, lifeVars, busVars, now, op, loc, last, done, ret, nm, loads>>

\* Delete with the channel full: the key is removed and NotifyDelete blocks
DeletePark(p, k) ==
    /\ CanCall(p)
    /\ k \in DOMAIN data
    /\ Len(ch) = ChanCap
    /\ data' = Del(data, k)
    /\ expirations' = Del(expirations, k)
    /\ seq' = SeqRemoved({k})
    /\ lease' = [lease EXCEPT ![k] = NoLease]
    /\ pc' = [pc EXCEPT ![p] = "send"]
    /\ op' = [op EXCEPT ![p] = [name |-> "Delete", key |-> k, value |-> "", new |-> "",
                                ttl |-> 0]]
    /\ UNCHANGED <<loaded, confVars, lifeVars, busVars, now, loc, last, done, ret, nm, loads>>

\* Notify, line 52: the blocked send completes once the channel has room;
\* the call returns and its deferred Unlock releases the store lock
Send(p) ==
    /\ pc[p] = "send"
    /\ Len(ch) < ChanCap
    /\ LET o == op[p]
           e == IF o.name = "Set" THEN SetEvent(loc[p].exists, o.key)
                ELSE Event("deleted", o.key)
       IN  /\ ch' = Notify(ch, e)
           /\ produced' = Append(produced, e)
           /\ Return(p, Result(o.name, o.key, o.value, "", o.ttl, 0, "", <<>>, TRUE, "nil"))
    /\ UNCHANGED <<storeVars, confVars, lifeVars, histVars, now, listeners, received, ret, nm,
                   loads>>

\* listen, line 78: listener(event) is called
ListenerEnter ==
    /\ nm.pc = "iter"
    /\ nm.i <= Len(listeners)
    /\ nm' = [nm EXCEPT !.pc = "call"]
    /\ UNCHANGED <<storeVars, confVars, lifeVars, busVars, histVars, now,
                   pc, op, loc, last, done, ret, loads>>

\* the callback calls Get on the store
ListenerGet ==
    /\ nm.pc = "call"
    /\ nm' = [nm EXCEPT !.pc = "rlock"]
    /\ UNCHANGED <<storeVars, confVars, lifeVars, busVars, histVars, now,
                   pc, op, loc, last, done, ret, loads>>

\* Get, lines 119-135, in the callback: the read lock is taken and released
ListenerRead ==
    /\ nm.pc = "rlock"
    /\ KvFree
    /\ nm' = [nm EXCEPT !.pc = "called"]
    /\ UNCHANGED <<storeVars, confVars, lifeVars, busVars, histVars, now,
                   pc, op, loc, last, done, ret, loads>>

\* the callback returns to the loop of listen
ListenerReturn ==
    /\ nm.pc \in {"call", "called"}
    /\ LET l == listeners[nm.i]
       IN  /\ received' = [received EXCEPT ![l] = Append(@, nm.event)]
           /\ nm' = [nm EXCEPT !.pc = "iter", !.i = @ + 1, !.got = Append(@, l)]
    /\ UNCHANGED <<storeVars, confVars, lifeVars, histVars, now, ch, listeners, produced,
                   pc, op, loc, last, done, ret, loads>>

StallInit ==
    /\ InitCommon
    /\ received = [l \in ListenerIds |-> <<>>]
    /\ lease = [k \in Keys |-> NoLease]
    /\ encryptionKey = "A"
    /\ data = EmptyMap
    /\ loaded = FALSE
    /\ globalTTL = 0
    /\ file = NoFile
    /\ limit = MaxStallOps
    /\ pc = [p \in Procs |-> "idle"]
    /\ op = [p \in Procs |-> NoOp]
    /\ seq = [k \in Keys |-> Dirty]

StallNext ==
    \/ \E l \in ListenerIds : RegisterListener(l)
    \/ DispatchRecv
    \/ DispatchLock
    \/ ListenerEnter
    \/ ListenerGet
    \/ ListenerRead
    \/ ListenerReturn
    \/ DispatchUnlock
    \/ \E k \in Keys : SetCall("p1", k, "a", 0)
    \/ EnsureLoaded("p1")
    \/ SetExists("p1")
    \/ SetWrite("p1")
    \/ SetPark("p1")
    \/ \E k \in Keys : Delete("p1", k)
    \/ \E k \in Keys : DeletePark("p1", k)
    \/ Send("p1")

StallSpec == StallInit /\ [][StallNext]_vars

(***************************************************************************)
(* Re-entrant listeners under fair scheduling.  One goroutine makes Set    *)
(* calls and another calls Stop, MaxStallOps calls in all, while the       *)
(* callback of the listener may call Get on the store.  Every goroutine    *)
(* that can take a step eventually takes it: the sections of a started     *)
(* call, the blocked send, the loop of listen, the callback once entered,  *)
(* the sweeper's acknowledgment of Stop.  Nothing obliges a caller to      *)
(* start a call, a listener to register or a callback to call Get.         *)
(***************************************************************************)
ReentrantNext ==
    \/ \E l \in ListenerIds : RegisterListener(l)
    \/ DispatchRecv
    \/ DispatchLock
    \/ ListenerEnter
    \/ ListenerGet
    \/ ListenerRead
    \/ ListenerReturn
    \/ DispatchUnlock
    \/ \E k \in Keys : SetCall("p1", k, "a", 0)
    \/ EnsureLoaded("p1")
    \/ SetExists("p1")
    \/ SetWrite("p1")
    \/ SetPark("p1")
    \/ Send("p1")
    \/ StopCall("p2")
    \/ SweeperStop
    \/ \E outcome \in DiskOutcomes : KvFree /\ StopSave("p2", outcome)

ReentrantFair ==
    /\ WF_vars(DispatchRecv)
    /\ WF_vars(DispatchLock)
    /\ WF_vars(ListenerEnter)
    /\ WF_vars(ListenerRead)
    /\ WF_vars(ListenerReturn)
    /\ WF_vars(DispatchUnlock)
    /\ WF_vars(EnsureLoaded("p1"))
    /\ WF_vars(SetExists("p1"))
    /\ WF_vars(SetWrite("p1"))
    /\ WF_vars(SetPark("p1"))
    /\ WF_vars(Send("p1"))
    /\ WF_vars(SweeperStop)
    /\ WF_vars(\E outcome \in DiskOutcomes : KvFree /\ StopSave("p2", outcome))

ReentrantSpec == StallInit /\ [][ReentrantNext]_vars /\ ReentrantFair

(***************************************************************************)
(* Claims.                                                                 *)
(***************************************************************************)

\* C1: after n sequential Sets with ttl 0 on a key that had no versions (no
\* other mutation of the key, no overlapping Set, no eviction in between),
\* GetAllVersions(k) returns the n values in call order and Get(k) returns
\* the last one (Get is asked before a global TTL can have run out).
C1_SequentialSets ==
    \A k \in Keys :
        (seq[k].ok /\ Len(seq[k].vals) > 0) =>
            /\ loaded
            /\ GetAllVersionsLocked(k) = [vals |-> seq[k].vals, err |-> "nil"]
            /\ (globalTTL = 0 \/ now = data[k][Len(data[k])].Timestamp) =>
                   GetLocked(k) = [val |-> seq[k].vals[Len(seq[k].vals)], err |-> "nil"]

\* C1 witness: Set(k1, a, 0) then Set(k1, b, 0) have returned, nothing else touched k1
C1_Witness ==
    /\ seq["k1"].ok
    /\ seq["k1"].vals = <<"a", "b">>
    /\ last.name = "Set" /\ last.value = "b"
    /\ GetLocked("k1").val = "b"

\* a CompareAndSwap call returns in this step
CASReturns == done' = done + 1 /\ last'.name = "CompareAndSwap"

\* C2: CompareAndSwap(k, expected, new, ttl) returns (false, key not found)
\* when k has no versions; (false, nil) without touching the versions or the
\* expiration index of k when the latest value differs from expected;
\* otherwise it appends new and returns (true, nil).  And a call with the
\* expected value of the successful swap a -> b (b # a) that returned just
\* before returns (false, nil) and changes nothing.
C2_CompareAndSwap ==
    [][CASReturns =>
        LET k == last'.key
            values == Lookup(data, k)
        IN  /\ IF k \notin DOMAIN data \/ values = <<>>
               THEN /\ ~last'.ok /\ last'.err = "key not found"
                    /\ data' = data /\ expirations' = expirations
               ELSE IF values[Len(values)].Value # last'.value
               THEN /\ ~last'.ok /\ last'.err = "nil"
                    /\ data' = data /\ expirations' = expirations
               ELSE /\ last'.ok /\ last'.err = "nil"
                    /\ DOMAIN data' = DOMAIN data
                    /\ Len(data'[k]) = Len(values) + 1
                    /\ SubSeq(data'[k], 1, Len(values)) = values
                    /\ data'[k][Len(values) + 1].Value = last'.new
            /\ (/\ last.name = "CompareAndSwap" /\ last.ok /\ last.key = k
                /\ last.value # last.new /\ last'.value = last.value
                /\ k \in DOMAIN data)
               => (~last'.ok /\ last'.err = "nil" /\ data' = data)
    ]_vars

\* C2 witness: a CompareAndSwap on a present key found another latest value
C2_Witness ==
    /\ last.name = "CompareAndSwap" /\ ~last.ok /\ last.err = "nil"
    /\ last.key \in DOMAIN data
    /\ data[last.key][Len(data[last.key])].Value # last.value

\* C3: when the racing CompareAndSwap calls have all returned, exactly one of
\* them returned true, and the key's latest value (while the key is in the
\* store) is the new value of that call, never the original one.
Winners == {p \in Procs : ret[p].ok}

C4_CASLinearizable ==
    [][(CASReturns /\ last'.ok) =>
        LET k == last'.key
            n == Len(data'[k])
        IN  /\ n >= 2
            /\ data'[k][n].Value = last'.new
            /\ data'[k][n].Timestamp = now
            /\ data'[k][n - 1].Value = last'.value
            /\ SubSeq(data'[k], 1, n - 1) = data[k]
    ]_vars

\* C4 witness: a CompareAndSwap returned true while a Set on the same key was
\* between its existence check and its write
C4_Witness ==
    /\ last.name = "CompareAndSwap" /\ last.ok
    /\ \E p \in Procs : pc[p] = "write" /\ op[p].key = last.key

\* a Get call returns in this step
GetReturns == done' = done + 1 /\ last'.name = "Get"

\* what the read-locked section of Get must return for key k in the state
\* the call returns in
GetContract(k, r) ==
    IF k \notin DOMAIN data' \/ data'[k] = <<>>
    THEN ~r.ok /\ r.err = "key not found"
    ELSE IF k \in DOMAIN expirations' /\ now' > expirations'[k]
    THEN ~r.ok /\ r.err = "key expired"
    ELSE r.ok /\ r.err = "nil" /\ r.val = data'[k][Len(data'[k])].Value

\* C5, as stated: Get(k) returns the latest value; 'key not found' when k is
\* absent or has no versions; 'key expired' when k's expiry is strictly in
\* the past, swept or not.
C5_GetAsStated == [][GetReturns => GetContract(last'.key, last')]_vars

\* C5, amended: when the lazy load of the file fails, Get returns the error
\* 'data not loaded'; in every other case Get(k) returns as stated.
C5_GetAmended ==
    [][GetReturns =>
        IF ~loaded'
        THEN ~last'.ok /\ last'.err = "data not loaded"
        ELSE GetContract(last'.key, last')
    ]_vars

\* C5 witness: Get found the key expired while the sweeper had not removed it
C5_Witness ==
    /\ last.name = "Get" /\ last.err = "key expired"
    /\ last.key \in DOMAIN data
    /\ now > expirations[last.key]

\* the three phases of C6 for a key whose last Set had ttl > 0
LeasePhases(k) ==
    IF lease[k].swept
    THEN k \notin KeysLocked /\ GetLocked(k).err = "key not found"
    ELSE IF now <= lease[k].exp
    THEN GetLocked(k).err = "nil"
    ELSE GetLocked(k).err = "key expired"

\* C6, as stated: after Set(k, v, ttl > 0) and no later Set, CompareAndSwap or
\* Delete on k, Get succeeds while now <= expiry, fails with 'key expired'
\* after it until the sweeper ticks, and after that tick k is not in Keys()
\* and Get fails with 'key not found'.
C6_TTLAsStated == \A k \in Keys : lease[k].on => LeasePhases(k)

\* C6, amended: the same, with RemoveVersion among the excluded later calls.
C6_TTLAmended == \A k \in Keys : (lease[k].on /\ ~lease[k].rv) => LeasePhases(k)

\* C6 witness: the key was set with a ttl, outlived it and was swept
C6_Witness ==
    /\ lease["k1"].on /\ ~lease["k1"].rv /\ lease["k1"].swept
    /\ now > lease["k1"].exp
    /\ "k1" \notin DOMAIN data

\* a Set call returns without error in this step
SetReturns == done' = done + 1 /\ last'.name = "Set" /\ last'.ok

DeleteReturns == done' = done + 1 /\ last'.name = "Delete"

\* C8: Delete(k) on a present key removes the versions and the expiry of k
\* (Get(k) then fails, k is not in Keys()) and sends one 'deleted:k'; on an
\* absent key it returns 'key not found', changes nothing and sends nothing.
C8_Delete ==
    [][DeleteReturns =>
        \A k \in Keys : k = last'.key =>
            IF k \in DOMAIN data
            THEN /\ last'.ok /\ last'.err = "nil"
                 /\ data' = Del(data, k)
                 /\ k \notin DOMAIN expirations'
                 /\ \A o \in DOMAIN expirations \ {k} :
                        o \in DOMAIN expirations' /\ expirations'[o] = expirations[o]
                 /\ k \notin KeysLocked'
                 /\ GetLocked(k)'.err # "nil"
                 /\ ch' = Append(ch, <<"deleted", k>>)
            ELSE /\ ~last'.ok /\ last'.err = "key not found"
                 /\ data' = data /\ expirations' = expirations /\ ch' = ch
    ]_vars

\* C8 witness: a key with an expiry was deleted and the event is in the channel
C8_Witness ==
    /\ last.name = "Delete" /\ last.ok
    /\ last.key \notin DOMAIN data
    /\ ch # <<>> /\ ch[Len(ch)] = <<"deleted", last.key>>

\* C9: a Set sends 'added:k' exactly when k had no versions when the Set took
\* the write lock and appended, and 'updated:k' otherwise.
C9_SetEventLabel ==
    [][SetReturns =>
        LET k == last'.key
            e == produced'[Len(produced')]
        IN  /\ e \in {<<"added", k>>, <<"updated", k>>}
            /\ e = <<"added", k>> <=> (k \notin DOMAIN data \/ data[k] = <<>>)
    ]_vars

\* C10: a registered listener is invoked in production order: what it has
\* received, followed by what is still in the channel, is the sequence of
\* events produced under the store's write lock from some point on, in the
\* order of production; a listener that is not registered receives nothing.
C10_ProductionOrder ==
    \A l \in ListenerIds :
        IF l \in Range(listeners)
        THEN \E i \in 0..Len(produced) :
                 SubSeq(produced, i + 1, Len(produced)) = received[l] \o ch
        ELSE received[l] = <<>>

\* C10 witness: Set on a new key, Set on the existing key and Delete were
\* heard as added, updated, deleted
C10_Witness ==
    /\ produced = <<Event("added", "k1"), Event("updated", "k1"), Event("deleted", "k1")>>
    /\ received["l1"] = produced

\* a step of the sweeper: no call moves and the clock stands still
SweeperStep == pc' = pc /\ done' = done /\ now' = now

\* the events sent in this step
Sent == SubSeq(produced', Len(produced) + 1, Len(produced'))

\* C11: a sweeper tick removes every key whose expiry is strictly in the past
\* from the version map and the expiration index and enqueues exactly one
\* 'expired:k' for each; the other keys are left as they are; no other step,
\* and no tick for a key it did not remove, sends 'expired'.
C11_SweeperTick ==
    [][LET gone == {k \in DOMAIN expirations : now > expirations[k]}
       IN  IF SweeperStep
           THEN /\ data' = [k \in DOMAIN data \ gone |-> data[k]]
                /\ expirations' = [k \in DOMAIN expirations \ gone |-> expirations[k]]
                /\ ch' = ch \o Sent
                /\ Len(Sent) = Cardinality(gone)
                /\ \A k \in gone : \E i \in DOMAIN Sent : Sent[i] = <<"expired", k>>
           ELSE \A i \in DOMAIN Sent : Sent[i][1] # "expired"
    ]_vars

\* C11 witness: the sweeper removed k1 after its expiry and sent the event
C11_Witness ==
    /\ produced # <<>> /\ produced[Len(produced)] = <<"expired", "k1">>
    /\ ch # <<>> /\ ch[Len(ch)] = <<"expired", "k1">>
    /\ "k1" \notin DOMAIN data /\ "k1" \notin DOMAIN expirations

\* the errors Set and Get return when the lazy load fails
LoadErrors == {"failed to load data", "data not loaded"}

\* C19: Loaded() is false after construction; it is true once a Get or Set
\* has returned without a load error; racing first accesses load the file
\* once; Loaded() never goes back to false.
C19_LazyLoading ==
    /\ ~loaded
    /\ [][/\ loaded => loaded'
          /\ (done' = done + 1 /\ last'.name \in {"Get", "Set"} /\ last'.err \notin LoadErrors)
                => loaded'
          /\ loads' <= 1
          /\ loaded' <=> loads' = 1
       ]_vars

\* C19 witness: two calls raced as the first access, one loaded the file and
\* the other waits at the second check of the flag
C19_Witness ==
    /\ file.exists /\ loaded /\ loads = 1 /\ "k1" \in DOMAIN data
    /\ \E p \in Callers : pc[p] = "load"

\* a GetVersion call returns in this step
GetVersionReturns == done' = done + 1 /\ last'.name = "GetVersion"

\* C20: GetVersion(k, i) returns the value at index i for 0 <= i < length and
\* an error, never a crash, when k is absent or i is out of range (equal to
\* the length, larger, or negative); the expiration index is not consulted.
C20_GetVersion ==
    [][GetVersionReturns =>
        LET k == last'.key
            i == last'.idx
        IN  IF k \in DOMAIN data /\ 0 <= i /\ i < Len(data[k])
            THEN last'.ok /\ last'.val = data[k][i + 1].Value
            ELSE ~last'.ok /\ last'.err \notin {"nil", "panic"}
    ]_vars

\* a Stop call returns in this step
StopReturns == done' = done + 1 /\ last'.name = "Stop"

\* C17: across sequential and concurrent Stop calls, stopChan is closed once
\* and the final snapshot is taken once; a Stop call that finds the first one
\* finished changes neither the store in memory nor the file.
C17_StopIdempotent ==
    /\ [](/\ journal.closes <= 1
          /\ journal.saves <= 1
          /\ stopOnce = "running" => (journal.closes = 1 /\ journal.saves = 0)
          /\ stopOnce = "done" => (journal.closes = 1 /\ journal.saves = 1))
    /\ [][(StopReturns /\ stopOnce = "done")
            => UNCHANGED <<data, expirations, loaded, encryptionKey, file, journal>>]_vars

\* C17 witness: two Stop calls overlapped and both have returned
C17_Witness ==
    /\ stopOnce = "done" /\ journal.saves = 1 /\ journal.closes = 1
    /\ done >= 2 /\ last.name = "Stop"
    /\ \A p \in Callers : pc[p] = "idle"
    /\ "k1" \in DOMAIN data

\* C18: Stop takes the snapshot only after the sweeper closed cleanupStopped,
\* no Stop call returns before that, and once a Stop call has returned the
\* sweeper evicts no key.
C18_StopOrder ==
    [][/\ journal'.saves > journal.saves => cleanupStopped = "closed"
       /\ StopReturns => cleanupStopped' = "closed"
       /\ (stopOnce = "done" /\ stopOnce' = "done")
            => /\ \A i \in DOMAIN Sent : Sent[i][1] # "expired"
               /\ SweeperStep => UNCHANGED <<data, expirations>>
    ]_vars

\* C18 witness: Stop has returned and an expired key stays in the map
C18_Witness ==
    /\ stopOnce = "done" /\ last.name = "Stop"
    /\ "k1" \in DOMAIN data /\ "k1" \in DOMAIN expirations
    /\ now > expirations["k1"]

\* C12: when a new engine, constructed with the same key on the file that
\* Stop wrote, loads the file, every key the old engine held at Stop has the
\* same version values in the same order (GetAllVersions), and Get returns
\* the latest of them.
C12_RoundTrip ==
    [][(journal.reopened /\ journal.stop = "saved" /\ ~loaded /\ loaded') =>
        \A k \in Keys : k \in DOMAIN journal.data =>
            /\ GetAllVersionsLocked(k)'.err = "nil"
            /\ GetAllVersionsLocked(k)'.vals = ValuesOf(journal.data[k])
            /\ Len(journal.data[k]) > 0 =>
                 /\ GetLocked(k)'.err = "nil"
                 /\ GetLocked(k)'.val = journal.data[k][Len(journal.data[k])].Value
    ]_vars

\* C12 witness: two versions were saved by Stop and a Get on the new engine
\* returned the latest
C12_Witness ==
    /\ journal.reopened /\ journal.stop = "saved" /\ loaded
    /\ "k1" \in DOMAIN data /\ Len(data["k1"]) = 2
    /\ "k1" \in DOMAIN journal.data
    /\ ValuesOf(data["k1"]) = ValuesOf(journal.data["k1"])
    /\ last.name = "Get" /\ last.ok /\ last.val = "b"

\* a RotateEncryptionKey call returns in this step
RotateReturns == done' = done + 1 /\ last'.name = "RotateEncryptionKey"

\* C13: after a successful RotateEncryptionKey(B), every key that was readable
\* before the call (loaded in memory or only in the file) is readable with
\* the same value, in this engine and in a new engine that opens the file
\* with B.
C13_RotationKeepsData ==
    [][(RotateReturns /\ last'.ok) =>
        \A k \in Keys : k \in DOMAIN rotated.view =>
            /\ k \in DOMAIN Readable'
            /\ Readable'[k] = rotated.view[k]
            /\ k \in DOMAIN Stored(file', last'.new)
            /\ Stored(file', last'.new)[k] = rotated.view[k]
    ]_vars

\* C14: after a successful RotateEncryptionKey(B) on a store that held A # B,
\* the file loads with B and with no other key (with A the decryption
\* fails); a Get on an engine whose key does not open the file returns
\* 'data not loaded' and no value.
C14_OnlyNewKey ==
    [][/\ (RotateReturns /\ last'.ok /\ rotated.old # last'.new) =>
            /\ loadFrom(file', last'.new, EmptyMap, FALSE).err = "nil"
            /\ loadFrom(file', rotated.old, EmptyMap, FALSE).err = "error decrypting data"
            /\ \A key \in OpenKeys \ {last'.new} :
                   loadFrom(file', key, EmptyMap, FALSE).err # "nil"
       /\ (GetReturns /\ ~loaded /\ file.exists /\ load.err = "error decrypting data") =>
            /\ ~last'.ok /\ last'.err = "data not loaded" /\ last'.val = ""
    ]_vars

\* C14 witness: after a rotation from A to B, a new engine constructed with A
\* on the file, which holds k1 under B, answered Get with 'data not loaded'
C14_Witness ==
    /\ rotated.state = "ok" /\ rotated.old # rotated.new
    /\ encryptionKey = rotated.old
    /\ "k1" \in DOMAIN Stored(file, rotated.new)
    /\ last.name = "Get" /\ last.err = "data not loaded"

\* C15: when RotateEncryptionKey returns an error, the key in memory is the
\* old key, the version map is as before the call, and the file, if it
\* loaded with the old key before the call, still loads with it to the same
\* content.
C15_RotationFailure ==
    [][(RotateReturns /\ ~last'.ok) =>
        /\ encryptionKey' = rotated'.old
        /\ data' = rotated'.data
        /\ loadFrom(rotated'.file, rotated'.old, EmptyMap, FALSE).err = "nil" =>
              loadFrom(file', rotated'.old, EmptyMap, FALSE)
                = loadFrom(rotated'.file, rotated'.old, EmptyMap, FALSE)
    ]_vars

\* C16: on a store opened with a wrong key or without a key for its file,
\* RotateEncryptionKey fails with 'failed to decrypt data with old key', the
\* key in memory stays the old one and the file is not written.
C16_WrongOldKey ==
    [][(RotateReturns /\ rotated'.mismatch) =>
        /\ ~last'.ok
        /\ last'.err = "failed to decrypt data with old key"
        /\ encryptionKey' = rotated'.old
        /\ file' = rotated'.file
    ]_vars

\* a RemoveVersion call returns in this step
RemoveVersionReturns == done' = done + 1 /\ last'.name = "RemoveVersion"

\* C21: RemoveVersion(k, i) with 0 <= i < length removes the version at index
\* i, keeps the other versions of k in their order and leaves the expiration
\* index and every other key as they are; when k is absent or i is out of
\* range (negative included) it returns an error and changes nothing.
C21_RemoveVersion ==
    [][RemoveVersionReturns =>
        \A k \in MapKeys : k = last'.key =>
            LET i == last'.idx
            IN  IF k \in DOMAIN data /\ 0 <= i /\ i < Len(data[k])
                THEN /\ last'.ok /\ last'.err = "nil"
                     /\ DOMAIN data' = DOMAIN data
                     /\ Len(data'[k]) = Len(data[k]) - 1
                     /\ \A j \in 1..i : data'[k][j] = data[k][j]
                     /\ \A j \in (i + 1)..(Len(data[k]) - 1) : data'[k][j] = data[k][j + 1]
                     /\ \A o \in DOMAIN data \ {k} : data'[o] = data[o]
                     /\ expirations' = expirations
                ELSE /\ ~last'.ok /\ last'.err \notin {"nil", "panic"}
                     /\ data' = data /\ expirations' = expirations
    ]_vars

\* a Keys call, a Size call returns in this step
KeysReturns == done' = done + 1 /\ last'.name = "Keys"

SizeReturns == done' = done + 1 /\ last'.name = "Size"

AccessReturns ==
    /\ done' = done + 1
    /\ last'.name \in {"Get", "Set", "Keys", "Size", "CompareAndSwap", "Delete"}

\* the file does not open under the key of the store: the decryption fails
Undecryptable == file.exists /\ load.err = "error decrypting data"

\* C23: when the decryption of the file fails, the call that triggered the
\* load returns the error, and no Get, Set, Keys, Size, CompareAndSwap or
\* Delete answers as if the store were empty: each of them returns a load
\* error while the file is undecryptable.
C23_DecryptionSurfaced ==
    [][(AccessReturns /\ ~loaded /\ Undecryptable) =>
        /\ ~last'.ok
        /\ last'.err \in LoadErrors
    ]_vars

\* the flat document of file f under key, if f holds one
OldFormat(f, key) ==
    LET decoded == Base64Decode(f.blob)
        decrypted == DecryptData(decoded.v, key)
        decompressed == DecompressData(decrypted.v)
    IN  IF f.exists /\ decoded.ok /\ decrypted.ok /\ decompressed.ok
            /\ decompressed.v.fmt = "jsonflat"
        THEN Ok(decompressed.v.v) ELSE Fail(EmptyMap)

\* C24: a file of the older flat shape is accepted by load and upgraded to
\* one version per key: once a Get or Set has run, every key of the old file
\* has exactly one version, with the old value, and Get(k) on a store that
\* was not written since returns the old value.
C24_OldFormatUpgraded ==
    [][(done' = done + 1 /\ last'.name \in {"Get", "Set"} /\ done = 0
            /\ OldFormat(file, encryptionKey).ok) =>
        LET old == OldFormat(file, encryptionKey).v
        IN  /\ loaded'
            /\ last'.err \notin LoadErrors
            /\ \A k \in DOMAIN old :
                   /\ k \in DOMAIN data'
                   /\ data'[k][1].Value = old[k].Value
                   /\ (last'.name = "Get" /\ last'.key = k) =>
                          (last'.ok /\ last'.val = old[k].Value)
    ]_vars

\* C25: in every reachable state, under any interleaving of Set,
\* CompareAndSwap, Delete, RemoveVersion, sweeper ticks, lazy load and key
\* rotation, every key of the expiration index is a key of the version map.
C25_ExpirationIndex == DOMAIN expirations \subseteq DOMAIN data

\* C25 witness: a rotation that had taken its snapshot before a Delete of k1
\* reloaded it after the Delete: k1 is back in the map, without an expiry
C25_Witness ==
    /\ last.name = "Delete" /\ last.ok /\ last.key = "k1"
    /\ \E p \in Callers : pc[p] = "rotsave"
    /\ "k1" \in DOMAIN data
    /\ "k1" \notin DOMAIN expirations

\* a RotateEncryptionKey call is between its snapshot and its return
Rotating(p) == pc[p] \in {"rotload", "rotsave"}

\* C28: RotateEncryptionKey is one critical section: while a call is between
\* its snapshot and its return no other step changes the map, the expiration
\* index or the file; the reload of the snapshot leaves the map as it is (no
\* mutation is lost or undone); and when the call has returned without error
\* the file opens under the key of the store.
C28_RotationAtomic ==
    [][\A p \in Callers :
        /\ (Rotating(p) /\ pc'[p] = pc[p]) => UNCHANGED <<data, expirations, file>>
        /\ (pc[p] = "rotload" /\ pc'[p] # "rotload") => data' = data
        /\ (Rotating(p) /\ pc'[p] = "idle" /\ last'.ok) =>
               loadFrom(file', encryptionKey', EmptyMap, FALSE).err = "nil"
    ]_vars

\* the versions of every key of the map are kept, in place, by this step
VersionsKept ==
    \A k \in DOMAIN data :
        /\ k \in DOMAIN data'
        /\ Len(data'[k]) >= Len(data[k])
        /\ SubSeq(data'[k], 1, Len(data[k])) = data[k]

\* C26: an appended version keeps its value and its timestamp, and the
\* version sequence of a key shrinks only by Delete, by the sweeper or by
\* RemoveVersion: every other step (Set, CompareAndSwap, lazy load,
\* RotateEncryptionKey), in any interleaving, keeps every version in place.
C26_VersionsImmutable ==
    [][(~DeleteReturns /\ ~RemoveVersionReturns /\ ~SweeperStep) => VersionsKept]_vars

\* C27: a successful CompareAndSwap(k, expected, new, ttl) leaves k's expiry
\* as Set(k, new, ttl) would: at now + ttl if ttl > 0, else at now + globalTTL
\* if globalTTL > 0, else without an entry.
C27_CASExpiry ==
    [][(CASReturns /\ last'.ok) =>
        \A k \in Keys : k = last'.key =>
            /\ expirations' = SetExpiry(expirations, k, now, last'.ttl)
            /\ IF last'.ttl > 0
               THEN k \in DOMAIN expirations' /\ expirations'[k] = now + last'.ttl
               ELSE IF globalTTL > 0
               THEN k \in DOMAIN expirations' /\ expirations'[k] = now + globalTTL
               ELSE k \notin DOMAIN expirations'
    ]_vars

\* the state of key k: absent, expired (in the map, past its expiry), live
\* (at least one version, no expiry or an expiry that has not passed) or
\* empty (in the map with no version, not past an expiry)
KeyState(k) ==
    IF k \notin DOMAIN data THEN "absent"
    ELSE IF k \in DOMAIN expirations /\ now > expirations[k] THEN "expired"
    ELSE IF Len(data[k]) >= 1 THEN "live"
    ELSE "empty"

\* what the read operations answer in the state of key k, as C29 states it
Permits(k) ==
    /\ GetLocked(k).err = "nil" <=> KeyState(k) = "live"
    /\ KeyState(k) \in {"live", "expired"} =>
          /\ GetHistoryLocked(k).err = "nil"
          /\ \A i \in 0..(Len(data[k]) - 1) : GetVersionLocked(k, i).err = "nil"

\* RemoveVersion with a valid index succeeds on a live or expired key
RemovePermitted(k) ==
    (/\ RemoveVersionReturns /\ last'.key = k
     /\ KeyState(k) \in {"live", "expired"}
     /\ 0 <= last'.idx /\ last'.idx < Len(data[k])) => last'.ok

C30_Dispatch ==
    [][/\ nm.mu = "listen" => listeners' = listeners
       /\ Len(ch') < Len(ch) =>
             /\ nm.pc = "recv"
             /\ nm'.event = Head(ch) /\ ch' = Tail(ch)
             /\ received' = received
       /\ received' # received =>
             /\ nm.pc = "iter" /\ nm.mu = "listen"
             /\ \E l \in DispatchIds :
                   /\ Append(nm.got, l) = SubSeq(listeners, 1, Len(nm.got) + 1)
                   /\ nm'.got = Append(nm.got, l)
                   /\ received' = [received EXCEPT ![l] = Append(@, nm.event)]
       /\ (nm.pc = "iter" /\ nm'.pc = "recv") => nm.got = listeners
    ]_vars

\* C30 witness: with l1 and l2 registered, both heard the first event and
\* the loop is between its calls of l1 and of l2 for the second event
C30_Witness ==
    /\ listeners = <<"l1", "l2">>
    /\ nm.pc = "iter" /\ nm.i = 2 /\ nm.got = <<"l1">>
    /\ received["l1"] = <<Event("added", "k1"), Event("updated", "k1")>>
    /\ received["l2"] = <<Event("added", "k1")>>

\* the timestamps of a version sequence never decrease from one index to
\* the next
Ordered(versions) ==
    \A i \in 1..(Len(versions) - 1) : versions[i].Timestamp <= versions[i + 1].Timestamp

\* C34: in every key's version sequence the timestamps are non-decreasing
\* from the oldest version to the current one, whatever the interleaving of
\* the Set and CompareAndSwap calls on the key.
C34_TimestampsOrdered == \A k \in DOMAIN data : Ordered(data[k])

\* C38: CompareAndSwap does not look at the expiration index.  On a key whose
\* expiry has passed and that the sweeper has not removed, a call whose old
\* value is the latest value returns (true, nil) and appends the new version
\* after the old ones; with ttl = 0 it removes the expiry of the key, and a
\* Get of the key then succeeds with the new value.
C38_CASOnExpired ==
    [][\A k \in Keys :
         (/\ CASReturns
          /\ last'.key = k
          /\ k \in Expired(expirations, now)
          /\ Len(Lookup(data, k)) > 0
          /\ Lookup(data, k)[Len(Lookup(data, k))].Value = last'.value)
         => /\ last'.ok /\ last'.err = "nil"
            /\ data'[k] = Append(data[k], KeyValue(last'.new, now))
            /\ (last'.ttl = 0 =>
                  /\ k \notin DOMAIN expirations'
                  /\ GetLocked(k)'.err = "nil"
                  /\ GetLocked(k)'.val = last'.new)
    ]_vars

\* C38 witness: on a store with a global TTL, a key written by Set was left
\* to expire and a CompareAndSwap with ttl = 0 then succeeded on it: the key
\* has two versions, no expiry, and Get returns the new value
C38_Witness ==
    /\ globalTTL = 1 /\ ~file.exists
    /\ last.name = "CompareAndSwap" /\ last.ok /\ last.ttl = 0
    /\ last.key \in DOMAIN data
    /\ Len(data[last.key]) = 2
    /\ data[last.key][2].Timestamp >= data[last.key][1].Timestamp + 2
    /\ last.key \notin DOMAIN expirations
    /\ GetLocked(last.key).err = "nil"
    /\ GetLocked(last.key).val = last.new

\* C37: every key of the version map, that is every key Keys() reports and
\* Size() counts, has at least one version, so the read section of Get and
\* CompareAndSwap do not answer 'key not found' for it.
C37_KeysHaveVersions ==
    \A k \in KeysLocked :
        /\ Len(data[k]) >= 1
        /\ GetLocked(k).err # "key not found"

\* the number of versions the file of the store holds for key k
Persisted(k) ==
    LET r == loadFrom(file, encryptionKey, EmptyMap, FALSE)
    IN  IF r.err = "nil" THEN Len(Lookup(r.data, k)) ELSE 0

\* C32: no version is lost under concurrent Sets on one key.  When Set calls
\* on k1 are the only calls made, then once all of them have returned the
\* version sequence of k1 holds one version per call, after the versions the
\* file held.
C32_NoLostVersions ==
    (done > 0 /\ \A p \in Procs : pc[p] = "idle")
        => Len(Lookup(data, "k1")) = Persisted("k1") + done

\* an UnregisterListener call returns in this step
UnregisterReturns == last'.name = "UnregisterListener" /\ last' # last

\* the listener list without listener l, the others in their order
Without(s, l) == SelectSeq(s, LAMBDA x : x # l)

\* C39: when UnregisterListener(l) returns for a registered listener l, l
\* has left the listener list and the other listeners keep their order; the
\* loop that locks the list for a later event does not find l in it and so
\* does not call l.
C39_Unregister ==
    [][/\ \A l \in DispatchIds :
            (UnregisterReturns /\ last'.key = l /\ l \in Range(listeners))
            => /\ l \notin Range(listeners')
               /\ listeners' = Without(listeners, l)
       /\ (last.name = "UnregisterListener" /\ nm.pc = "lock" /\ nm'.pc = "iter")
            => last.key \notin Range(listeners')
    ]_vars

\* the map an operation works on once the file has been loaded
LoadedData == IF loaded THEN data ELSE load.data

\* C40: on a freshly constructed engine whose file can be loaded, the calls
\* that return before any Get or Set has loaded it (CompareAndSwap, Delete,
\* GetVersion, GetAllVersions, GetHistory, RemoveVersion, Keys, Size) give
\* the results they would give on the loaded map.
C40_FirstAccess ==
    [][(done' = done + 1 /\ ~loaded /\ load.err = "nil") =>
        LET d == LoadedData
            r == last'
            versions == Lookup(d, r.key)
        IN  /\ r.name = "Keys" => Range(r.vals) = DOMAIN d
            /\ r.name = "Size" => r.idx = Cardinality(DOMAIN d)
            /\ r.name = "Delete" => (r.ok <=> r.key \in DOMAIN d)
            /\ r.name = "GetAllVersions" =>
                 /\ r.ok <=> r.key \in DOMAIN d
                 /\ r.vals = ValuesOf(versions)
            /\ r.name = "GetHistory" =>
                 /\ r.ok <=> r.key \in DOMAIN d
                 /\ r.vals = versions
            /\ r.name \in {"GetVersion", "RemoveVersion"} =>
                 (r.ok <=> (r.key \in DOMAIN d /\ r.idx \in 0..(Len(versions) - 1)))
            /\ r.name = "GetVersion" /\ r.ok => r.val = versions[r.idx + 1].Value
            /\ r.name = "CompareAndSwap" =>
                 /\ r.err = "key not found" <=> versions = <<>>
                 /\ r.ok <=> (versions # <<>> /\ versions[Len(versions)].Value = r.value)
    ]_vars

\* the save of Stop runs in this step and its write succeeds
StopSaves ==
    \E p \in Procs : pc[p] = "stopwait" /\ pc'[p] = "idle" /\ journal'.stop = "saved"

\* C36: Stop does not destroy persisted data the store has not loaded.  When
\* Stop saves on an engine whose load has not run, or has failed, every key
\* the file held is still in the file afterwards, readable with the same
\* value by a new engine that holds the sealing key.
C36_StopKeepsFile ==
    [][(StopSaves /\ ~loaded) =>
         \A key \in EncKeys :
            \A k \in DOMAIN Stored(file, key) :
               /\ k \in DOMAIN Stored(file', key)
               /\ Stored(file', key)[k] = Stored(file, key)[k]
    ]_vars

\* the engine was constructed on the snapshot of the last Stop, with its
\* key, and no Set, Delete or successful CompareAndSwap has run in it
Reloaded ==
    /\ journal.reopened
    /\ produced = <<>>
    /\ data = (IF loaded THEN journal.data ELSE EmptyMap)

\* C35: the snapshot holds the version map and not the expiration index.
\* In an engine constructed on the file that Stop wrote, the expiration
\* index is empty until a key is Set or swapped again, and Get returns the
\* latest saved value of every reloaded key whatever TTL, own or global, the
\* key was Set with, and however late.
C35_NoExpiryReloaded ==
    Reloaded =>
        /\ expirations = EmptyMap
        /\ loaded => \A k \in DOMAIN Latest(journal.data) :
                        GetLocked(k) = [val |-> Latest(journal.data)[k], err |-> "nil"]

\* C35 witness: k1 was Set under a TTL, saved by Stop and reloaded by a Get
\* that succeeded two ticks after the Set, past the expiry the key had
C35_Witness ==
    /\ Reloaded /\ loaded
    /\ "k1" \in DOMAIN data
    /\ now > data["k1"][Len(data["k1"])].Timestamp + 1
    /\ globalTTL = 1
    /\ last.name = "Get" /\ last.ok /\ last.val = "a"

\* the dispatch loop is inside the callback of a listener
InCallback == nm.pc \in {"call", "rlock", "called"}

\* C31: a slow listener does not stall a mutation.  No Set or Delete call
\* stays in its write-locked section, blocked on the send of its event to
\* the full channel, while the callback of a listener has not returned.
C31_NoStall == \A p \in Procs : ~(pc[p] = "send" /\ Len(ch) = ChanCap /\ InCallback)

\* C33: with a listener that calls Get from inside its callback, every Set
\* and every Stop that has started eventually returns, in every fair
\* interleaving, also when the channel is full while the producer holds the
\* store's write lock.
C33_CallsComplete ==
    \A p \in Callers : (pc[p] # "idle") ~> (pc[p] = "idle")

====
